---- MODULE Spec2Model ----
(***************************************************************************)
(* Job-execution engine of the webscraper package:                         *)
(*   - webscraper.core.rate_limiter  (RateLimiter, AdaptiveRateLimiter)    *)
(*   - webscraper.core.state         (StateManager, DownloadStatus)        *)
(*   - webscraper.scrapers.base      (BaseScraper.run)                     *)
(*   - webscraper.utils.progress     (ProgressLogger counters)             *)
(*                                                                         *)
(* Time is the value of time.time(), taken as a monotonic integer number   *)
(* of seconds.  Floats of the rate limiter are modelled by exact rational  *)
(* arithmetic: backoff factors are binary fractions <<num, den>>, for      *)
(* which int(rpm / factor) = floor(rpm * den / num), and int(rpm * 1.1)    *)
(* equals floor(rpm * 11 / 10) for every rpm in 1..1000.                   *)
(***************************************************************************)
EXTENDS Integers, Sequences, FiniteSets, TLC

\* ------------------------------------------------------------------ bounds
\* Largest clock value at which the environment still lets time pass.
MaxTime == 60
\* Granularity of the time that passes between two calls.
TickSize == 20
\* Number of wait_if_needed() calls followed.
MaxAdmits == 4
\* Number of on_429_response() calls followed.
MaxOverloads == 2
\* Attempts value at which set_status calls on a key are no longer followed.
MaxAttempts == 2
\* Number of run() calls followed.
MaxPasses == 2
\* Number of failing state-file writes followed in a run.
MaxWriteFailures == 1

\* Number of calls the threads that share a store or a limiter begin.
MaxCalls == 3

\* -------------------------------------------------------- program constants
\* Length of the sliding window in seconds (60.0 in wait_if_needed).
Window == 60

VARIABLES
    \* ---- AdaptiveRateLimiter fields
    requests_per_minute,   \* self.requests_per_minute: the current ceiling
    initial_rpm,           \* self._initial_rpm
    backoff_factor,        \* self._backoff_factor, as <<numerator, denominator>>
    consecutive_429s,      \* self._consecutive_429s
    request_times,         \* self._request_times: deque of timestamps
    now,                   \* time.time()
    \* ---- environment
    recovering,            \* TRUE once the remote has stopped signalling overload
    \* ---- observation of the calls made (history)
    admitLog,              \* time.time() at each return of wait_if_needed()
    epochStart,            \* Len(admitLog) when the ceiling last changed
    overloads,             \* number of on_429_response() calls so far
    overloadAt,            \* Len(admitLog) at the last on_429_response() call
    prev_rpm,              \* the ceiling immediately before the last signal
    last_signal,           \* "none", "overload" or "success"
    success_toggle,        \* flips at every on_success_response() call
    \* ---- StateManager
    state,                 \* self._state: [downloads, metadata]
    disk,                  \* the content of self.state_file
    store_raised,          \* TRUE once a call on this StateManager has raised
    \* ---- ScraperConfig
    max_retries,           \* config.max_retries
    validate_downloads,    \* config.validate_downloads
    \* ---- BaseScraper.run
    pc,                    \* where run() is: "idle", "loop", "admit", "fetch",
                           \* "commit", "except", "done" or "raised"
    resume,                \* the argument resume
    pending,               \* pending_date_objects
    idx,                   \* position of the loop in pending
    file_path,             \* the local file_path: what download_for_date returned
    exc,                   \* the exception caught by a handler of run(), as
                           \* str(e)
    progress,              \* ProgressLogger: total, completed, failed, skipped
    summary,               \* the summary computed at the end of the last pass
    \* ---- environment
    behaviour,             \* per key: the outcome of every fetch, or "any"
    valid,                 \* whether the file just downloaded passes validation
    disk_faulty,           \* whether writes of the state file can fail
    \* ---- observation of the calls made (history)
    passes,                \* number of run() calls so far
    write_failures,        \* number of _save_state calls that raised
    fetches,               \* per key: number of download_for_date calls
    marks,                 \* per key: number of set_status(key, IN_PROGRESS) calls
    signalled,             \* the rate signal run() gave for the key it handled
                           \* last: "none", "success" or "overload"
    reloaded,              \* TRUE when the process restarted since the last
                           \* pass that ran to its end
    finishes,              \* one record per pass that ran to its end: its
                           \* number, its resume argument, whether the store
                           \* was reloaded before it, the keys then completed
    \* ---- threads sharing one StateManager or one rate limiter
    store_lock,            \* StateManager._lock: the thread holding it, or
                           \* NoThread
    rate_lock,             \* RateLimiter._lock: the thread holding it, or
                           \* NoThread
    tpc,                   \* per thread: where the call it makes is
    targ,                  \* per thread: the date_key of its set_status call
    twake,                 \* per thread: when its time.sleep() returns
    \* ---- observation of the calls made (history)
    returned,              \* per thread: the calls that have returned
    calls,                 \* number of calls the threads have begun
    \* ---- HttpClient._request_with_retry
    http_pc,               \* where the call is: "idle", "loop" or "done"
    http_max_retries,      \* self.max_retries
    attempt,               \* the loop variable attempt
    last_exception,        \* the local last_exception
    \* ---- observation (history)
    sent,                  \* requests sent by the call
    slept,                 \* seconds the call has slept
    retried_after,         \* the answers after which the call sent another
                           \* request
    http_result,           \* how the call ended
    slots,                 \* wait_if_needed() calls made for the key that
                           \* run() is at
    backoffs               \* on_429_response() calls made for the key that
                           \* run() is at

limiterVars == <<requests_per_minute, initial_rpm, backoff_factor,
                 consecutive_429s, request_times, now>>

rateLogVars == <<recovering, admitLog, epochStart, overloads, overloadAt,
                 prev_rpm, last_signal, success_toggle>>

rateVars == <<limiterVars, rateLogVars>>

storeVars == <<state, disk, store_raised>>

runVars == <<max_retries, validate_downloads, pc, resume, pending, idx,
             file_path, exc, progress, summary, behaviour, valid, disk_faulty,
             passes, write_failures, fetches, marks, signalled, reloaded,
             finishes>>

threadVars == <<store_lock, rate_lock, tpc, targ, twake, returned, calls>>

httpVars == <<http_pc, http_max_retries, attempt, last_exception, sent,
              slept, retried_after, http_result>>

countVars == <<slots, backoffs>>

clientVars == <<httpVars, countVars>>

vars == <<rateVars, storeVars, runVars, threadVars, clientVars>>

\* ----------------------------------------------------------------- helpers
Max2(a, b) == IF a >= b THEN a ELSE b
Min2(a, b) == IF a <= b THEN a ELSE b

\* Constructor arguments requests_per_minute tried (ScraperConfig allows 1..1000).
InitialRpms == {2, 34}
\* Constructor arguments backoff_factor tried: 0.5, 1.0, 1.0625, 1.5, 2.0.
BackoffFactors == {<<1, 2>>, <<1, 1>>, <<17, 16>>, <<3, 2>>, <<2, 1>>}
\* Arguments retry_after tried (ScraperConfig.retry_delay >= 1).
RetryAfters == {TickSize, Window}
\* time.sleep(t) returns after at least t seconds: how much later the clock
\* is read in wait_if_needed (after on_429_response nothing reads it, and
\* a longer sleep there is a Tick after the call).
SleepOvershoots == {0, TickSize}

\* ------------------------------------------------------------ RateLimiter
\* deque(maxlen=requests_per_minute): fixed at construction.
DequeMaxlen == initial_rpm

\* deque.append on a bounded deque drops the leftmost element when full.
DequeAppend(q, x) ==
    IF Len(q) >= DequeMaxlen THEN Append(Tail(q), x) ELSE Append(q, x)

\* Variant: the comparison admits one request too many.
UnderLimit_OffByOne == Len(request_times) <= requests_per_minute

\* len(self._request_times) < self.requests_per_minute
UnderLimit == Len(request_times) < requests_per_minute

\* wait_time = 60.0 - time_since_oldest when time_since_oldest < 60.0
WaitTime(oldest_request) ==
    LET time_since_oldest == now - oldest_request
    IN  IF time_since_oldest < Window THEN Window - time_since_oldest ELSE 0

\* RateLimiter.wait_if_needed, the whole call (the sleep included; the lock is
\* held throughout, so the call is one step).
WaitIfNeeded ==
    /\ IF UnderLimit
         THEN /\ request_times' = DequeAppend(request_times, now)
              /\ now' = now
         ELSE \E over \in SleepOvershoots :
                LET wait_time == WaitTime(request_times[1])
                    t == IF wait_time > 0 THEN now + wait_time + over ELSE now
                IN  /\ now' = t
                    /\ request_times' = DequeAppend(request_times, t)
    /\ UNCHANGED <<requests_per_minute, initial_rpm, backoff_factor,
                   consecutive_429s>>

\* ---------------------------------------------------- AdaptiveRateLimiter
\* Variant: the quotient is rounded up instead of truncated.
IntDiv_RoundUp(rpm, bf) == (rpm * bf[2] + bf[1] - 1) \div bf[1]

\* int(rpm / backoff_factor)
IntDiv(rpm, bf) == (rpm * bf[2]) \div bf[1]

\* new_rpm = max(1, int(self.requests_per_minute / self._backoff_factor))
BackoffRpm(rpm, bf) == Max2(1, IntDiv(rpm, bf))

\* Variant: the recovery is not capped at the initial rate.
RecoverRpm_NoCap(rpm, initial) == (rpm * 11) \div 10

\* new_rpm = min(self._initial_rpm, int(self.requests_per_minute * 1.1))
RecoverRpm(rpm, initial) == Min2(initial, (rpm * 11) \div 10)

\* Variant: the recent requests are not cleared.
On429Response_NoClear(retry_after) ==
    /\ consecutive_429s' = consecutive_429s + 1
    /\ requests_per_minute' = BackoffRpm(requests_per_minute, backoff_factor)
    /\ now' = now + retry_after
    /\ request_times' = request_times
    /\ UNCHANGED <<initial_rpm, backoff_factor>>

\* AdaptiveRateLimiter.on_429_response(retry_after)
On429Response(retry_after) ==
    /\ consecutive_429s' = consecutive_429s + 1
    /\ requests_per_minute' = BackoffRpm(requests_per_minute, backoff_factor)
    /\ now' = now + retry_after
    /\ request_times' = <<>>
    /\ UNCHANGED <<initial_rpm, backoff_factor>>

\* The guard of on_success_response: self._consecutive_429s > 0
SuccessCounts == consecutive_429s > 0

\* AdaptiveRateLimiter.on_success_response
OnSuccessResponse ==
    /\ IF SuccessCounts
         THEN /\ consecutive_429s' = 0
              /\ requests_per_minute' =
                    IF requests_per_minute < initial_rpm
                      THEN RecoverRpm(requests_per_minute, initial_rpm)
                      ELSE requests_per_minute
         ELSE UNCHANGED <<consecutive_429s, requests_per_minute>>
    /\ UNCHANGED <<initial_rpm, backoff_factor, request_times, now>>

\* ------------------------------------------------------------ Python and JSON
\* Python values that are not of one fixed type are tagged with their type.
PyNone == <<"None">>
PyStr(s) == <<"str", s>>
PyInt(n) == <<"int", n>>
PyTuple(q) == <<"tuple", q>>
PyList(q) == <<"list", q>>

\* Truth value of an Optional[str] in `if file_path:` / `if error:`.
Truthy(v) == v # PyNone /\ Len(v[2]) > 0

\* JSON values as written to the file.
JNull == <<"null">>
JString(s) == <<"string", s>>
JNumber(n) == <<"number", n>>
JArray(q) == <<"array", q>>

\* json.dump of one value: None is null; tuples and lists are arrays.
ValueToJson(v) ==
    CASE v[1] = "None" -> JNull
      [] v[1] = "str" -> JString(v[2])
      [] v[1] = "int" -> JNumber(v[2])
      [] v[1] \in {"tuple", "list"} -> JArray(v[2])

\* json.load of one value: null is None; arrays are lists.
JsonToValue(j) ==
    CASE j[1] = "null" -> PyNone
      [] j[1] = "string" -> PyStr(j[2])
      [] j[1] = "number" -> PyInt(j[2])
      [] j[1] = "array" -> PyList(j[2])

\* ------------------------------------------------------------ StateManager
\* DownloadStatus values.
PENDING == "pending"
IN_PROGRESS == "in_progress"
COMPLETED == "completed"
FAILED == "failed"
SKIPPED == "skipped"
DownloadStatus == {PENDING, IN_PROGRESS, COMPLETED, FAILED, SKIPPED}

\* The job keys (date strings), in date order.
AllKeys == <<"2024-01-01", "2024-01-02">>
Keys == {AllKeys[i] : i \in DOMAIN AllKeys}

\* StateManager._init_state (created_at and last_updated, which no operation
\* reads, are left out, as are the records' created_at and updated_at).
InitState == [downloads |-> <<>>, metadata |-> <<>>]

\* The state file.
FileMissing == [kind |-> "missing"]
FileGarbage == [kind |-> "garbage"]
FileJson(doc) == [kind |-> "json", doc |-> doc]

\* Variant: the attempts of a record are not written.
RecordToJson_NoAttempts(r) ==
    [status |-> JString(r.status),
     file_path |-> ValueToJson(r.file_path),
     error |-> ValueToJson(r.error),
     attempts |-> JNumber(0)]

\* json.dump(self._state): the document written for a state.
RecordToJson(r) ==
    [status |-> JString(r.status),
     file_path |-> ValueToJson(r.file_path),
     error |-> ValueToJson(r.error),
     attempts |-> JNumber(r.attempts)]

Dump(st) ==
    [downloads |-> [k \in DOMAIN st.downloads |-> RecordToJson(st.downloads[k])],
     metadata |-> [k \in DOMAIN st.metadata |-> ValueToJson(st.metadata[k])]]

\* json.load(f): the state read from a document.
JsonToRecord(j) ==
    [status |-> j.status[2],
     file_path |-> JsonToValue(j.file_path),
     error |-> JsonToValue(j.error),
     attempts |-> j.attempts[2]]

\* json.load returns what the document holds, a snapshot or not.
Parse(doc) ==
    IF "downloads" \in DOMAIN doc
      THEN [downloads |-> [k \in DOMAIN doc.downloads |->
                              JsonToRecord(doc.downloads[k])],
            metadata |-> [k \in DOMAIN doc.metadata |->
                              JsonToValue(doc.metadata[k])]]
      ELSE doc

\* StateManager._load_state: the file's state if it exists and parses, else
\* an empty state.
LoadState(file) ==
    IF file.kind = "json" THEN Parse(file.doc) ELSE InitState

\* Outcomes of StateManager._save_state: written; open() or mkdir() raised
\* OSError and the file is as before; the write raised after open(.., "w")
\* had truncated the file.
SaveOutcomes == {"ok", "open_failed", "write_failed"}

\* Variant: the file is written before the mutation is applied.
SavedFile_Stale(st, out) ==
    CASE out = "ok" -> FileJson(Dump(state))
      [] out = "open_failed" -> disk
      [] out = "write_failed" -> FileGarbage

\* The file after _save_state of state st with outcome out.
SavedFile(st, out) ==
    CASE out = "ok" -> FileJson(Dump(st))
      [] out = "open_failed" -> disk
      [] out = "write_failed" -> FileGarbage

\* self._state["downloads"] does not raise KeyError.
HasDownloads(st) == "downloads" \in DOMAIN st

\* StateManager.get_status
GetStatus(st, date_key) ==
    IF date_key \in DOMAIN st.downloads
      THEN st.downloads[date_key].status
      ELSE PENDING

\* StateManager.get_attempts
GetAttempts(st, date_key) ==
    IF date_key \in DOMAIN st.downloads
      THEN st.downloads[date_key].attempts
      ELSE 0

\* Variant: only IN_PROGRESS counts as an attempt.
CountsAsAttempt_InProgressOnly(status) == status = IN_PROGRESS

\* status in [DownloadStatus.IN_PROGRESS, DownloadStatus.FAILED]
CountsAsAttempt(status) == status \in {IN_PROGRESS, FAILED}

\* The in-memory part of StateManager.set_status: the new self._state.
SetStatusState(st, date_key, status, fpath, error) ==
    LET had == date_key \in DOMAIN st.downloads
        old == st.downloads[date_key]
        rec == IF ~had
                 THEN [status |-> status, file_path |-> fpath,
                       error |-> error, attempts |-> 0]
                 ELSE [status |-> status,
                       file_path |-> IF Truthy(fpath) THEN fpath
                                     ELSE old.file_path,
                       error |-> IF Truthy(error) THEN error ELSE old.error,
                       attempts |-> old.attempts]
        counted == IF CountsAsAttempt(status)
                     THEN [rec EXCEPT !.attempts = @ + 1]
                     ELSE rec
    IN  [st EXCEPT !.downloads =
            [k \in DOMAIN st.downloads \cup {date_key} |->
                IF k = date_key THEN counted ELSE st.downloads[k]]]

\* The in-memory part of StateManager.set_metadata.
SetMetadataState(st, key, value) ==
    [st EXCEPT !.metadata =
        [k \in DOMAIN st.metadata \cup {key} |->
            IF k = key THEN value ELSE st.metadata[k]]]

\* StateManager.get_completed_dates / get_failed_dates
GetCompletedDates(st) ==
    {k \in DOMAIN st.downloads : st.downloads[k].status = COMPLETED}
GetFailedDates(st) ==
    {k \in DOMAIN st.downloads : st.downloads[k].status = FAILED}

\* The elements of q that are not in drop, in order.
RECURSIVE FilterSeq(_, _)
FilterSeq(q, drop) ==
    IF q = <<>> THEN <<>>
    ELSE IF Head(q) \in drop THEN FilterSeq(Tail(q), drop)
    ELSE <<Head(q)>> \o FilterSeq(Tail(q), drop)

\* Variant: the dates the store has no record of are dropped too.
GetPendingDates_KnownOnly(st, all_dates) ==
    FilterSeq(all_dates,
              GetCompletedDates(st) \cup
                ({all_dates[i] : i \in DOMAIN all_dates} \ DOMAIN st.downloads))

\* Variant: the failed dates are dropped instead of the completed ones.
GetPendingDates_DropFailed(st, all_dates) ==
    FilterSeq(all_dates, GetFailedDates(st))

\* StateManager.get_pending_dates
GetPendingDates(st, all_dates) == FilterSeq(all_dates, GetCompletedDates(st))

\* Variant: the records are counted whatever their status.
CountStatus_Any(st, status) == Cardinality(DOMAIN st.downloads)

\* StateManager.get_summary; success_rate is the fraction <<numerator,
\* denominator>> of completed / total * 100, and 0.0 when total is 0.
CountStatus(st, status) ==
    Cardinality({k \in DOMAIN st.downloads : st.downloads[k].status = status})

GetSummary(st) ==
    LET total == Cardinality(DOMAIN st.downloads)
        completed == CountStatus(st, COMPLETED)
        failed == CountStatus(st, FAILED)
        in_progress == CountStatus(st, IN_PROGRESS)
    IN  [total |-> total,
         completed |-> completed,
         failed |-> failed,
         in_progress |-> in_progress,
         pending |-> total - completed - failed - in_progress,
         success_rate |-> IF total > 0 THEN <<completed * 100, total>>
                          ELSE <<0, 1>>]

\* StateManager.set_status, the whole call: the mutation, then _save_state,
\* which may raise; the mutation stays in memory when it does.
SetStatus(date_key, status, fpath, error, out) ==
    /\ state' = SetStatusState(state, date_key, status, fpath, error)
    /\ disk' = SavedFile(state', out)
    /\ store_raised' = (store_raised \/ out # "ok")

\* StateManager.set_metadata, the whole call.
SetMetadata(key, value, out) ==
    /\ state' = SetMetadataState(state, key, value)
    /\ disk' = SavedFile(state', out)
    /\ store_raised' = (store_raised \/ out # "ok")

\* Variant: the empty state is not saved.
Reset_NoSave(out) ==
    /\ state' = InitState
    /\ disk' = disk
    /\ store_raised' = (store_raised \/ out # "ok")

\* StateManager.reset, the whole call.
Reset(out) ==
    /\ state' = InitState
    /\ disk' = SavedFile(state', out)
    /\ store_raised' = (store_raised \/ out # "ok")

\* StateManager.__init__: a new store object on the same file.
NewStateManager ==
    /\ state' = LoadState(disk)
    /\ disk' = disk
    /\ store_raised' = FALSE

\* ------------------------------------------------------------ BaseScraper.run
\* Values of config.max_retries tried (ScraperConfig allows 1..10).
MaxRetriesValues == {1, 2, 3}

\* What one download_for_date call, with the validation of its file, comes
\* to: a file that validates, a file that does not, a file that does not
\* and whose ValidationError names the number 429, None, an exception, an
\* exception whose message names a 429, an exception without a message.
Outcomes ==
    {"ok", "invalid", "invalid429", "none", "error", "error429", "error_empty"}

\* Messages, as sequences of words.
MsgReturnedNone == <<"Download", "returned", "None">>
MsgTooSmall == <<"File", "too", "small">>
MsgFewRows == <<"Insufficient", "rows:", "429">>
MsgTimeout == <<"Connection", "timeout">>
MsgRateLimited == <<"Rate", "limit", "exceeded:", "HTTP", "429">>
MsgDiskFull == <<"[Errno", "28]", "No", "space", "left", "on", "device">>
\* str(e) of an exception raised without arguments, such as AssertionError().
MsgEmpty == <<>>

\* str(e) of the exception that outcome o raises, in download_for_date or
\* in validate_file.
MessageOf(o) ==
    CASE o = "error" -> MsgTimeout
      [] o = "error429" -> MsgRateLimited
      [] o = "error_empty" -> MsgEmpty
      [] o = "invalid" -> MsgTooSmall
      [] o = "invalid429" -> MsgFewRows

\* f"Validation failed: {e}"
ValidationMessage(e) == <<"Validation", "failed:">> \o e
MsgValidation == ValidationMessage(MsgTooSmall)

\* str.lower() of the words that occur.
Lower(w) ==
    CASE w = "Rate" -> "rate"
      [] w = "Download" -> "download"
      [] w = "None" -> "none"
      [] w = "Validation" -> "validation"
      [] w = "File" -> "file"
      [] w = "Connection" -> "connection"
      [] w = "HTTP" -> "http"
      [] w = "[Errno" -> "[errno"
      [] w = "No" -> "no"
      [] w = "Insufficient" -> "insufficient"
      [] OTHER -> w

\* Variant: every exception is taken for a rate limit.
IsRateLimitMessage_Any(msg) == TRUE

\* "429" in error_msg or "rate limit" in error_msg.lower()
IsRateLimitMessage(msg) ==
    \/ \E i \in DOMAIN msg : msg[i] = "429"
    \/ \E i \in DOMAIN msg :
          /\ i + 1 \in DOMAIN msg
          /\ Lower(msg[i]) = "rate"
          /\ Lower(msg[i + 1]) = "limit"

\* The file download_for_date returns for a key.
PathOf(date_key) == PyStr(<<"data", date_key>>)

\* config.retry_delay (default 60).
RetryDelay == 60

\* ProgressLogger.__init__ and its counters.
NoProgress == [total |-> 0, completed |-> 0, failed |-> 0, skipped |-> 0]
NewProgress(total) == [NoProgress EXCEPT !.total = total]
LogSuccess(p) == [p EXCEPT !.completed = @ + 1]
LogFailure(p) == [p EXCEPT !.failed = @ + 1]
\* Variant: a skip is not counted.
LogSkip_Uncounted(p) == p
LogSkip(p) == [p EXCEPT !.skipped = @ + 1]

\* ProgressLogger.get_stats()["remaining"]
Remaining(p) == p.total - p.completed - p.failed - p.skipped

\* The key the loop is at.
CurrentKey == pending[idx]

\* Variant: the comparison lets one more attempt through.
ShouldSkip_OffByOne(attempts) == attempts > max_retries

\* attempts >= self.config.max_retries
ShouldSkip(attempts) == attempts >= max_retries

\* The outcomes of _save_state still followed.
SaveOutcomesLeft ==
    IF disk_faulty /\ write_failures < MaxWriteFailures
      THEN SaveOutcomes ELSE {"ok"}

\* Variant: the date list is all dates, resuming or not.
PendingFor_All(r) == AllKeys

\* The date list of the pass: pending dates when resuming, else all dates.
PendingFor(r) == IF r THEN GetPendingDates(state, AllKeys) ELSE AllKeys

\* run(), up to the loop: the date list and the ProgressLogger.
RunStart ==
    /\ pc \in {"idle", "done"}
    /\ passes < MaxPasses
    /\ \E r \in BOOLEAN :
          /\ resume' = r
          /\ pending' = PendingFor(r)
    /\ progress' = NewProgress(Len(pending'))
    /\ idx' = 1
    /\ pc' = "loop"
    /\ passes' = passes + 1
    /\ UNCHANGED <<rateVars, storeVars, threadVars, clientVars,
                   max_retries, validate_downloads,
                   file_path, exc, summary, behaviour, valid, disk_faulty,
                   write_failures, fetches, marks, signalled, reloaded,
                   finishes>>

\* The loop is exhausted: print_summary, close, get_summary.
RunFinish ==
    /\ pc = "loop"
    /\ idx > Len(pending)
    /\ summary' = GetSummary(state)
    /\ pc' = "done"
    /\ finishes' = Append(finishes,
                          [pass |-> passes, resume |-> resume,
                           reloaded |-> reloaded,
                           completed |-> GetCompletedDates(state)])
    /\ reloaded' = FALSE
    /\ UNCHANGED <<rateVars, storeVars, threadVars, clientVars,
                   max_retries, validate_downloads,
                   resume, pending, idx, file_path, exc, progress, behaviour,
                   valid, disk_faulty, passes, write_failures, fetches, marks,
                   signalled>>

\* Variant: the skip is recorded in the store as status SKIPPED.
RunSkip_Recorded ==
    /\ pc = "loop"
    /\ idx <= Len(pending)
    /\ ShouldSkip(GetAttempts(state, CurrentKey))
    /\ SetStatus(CurrentKey, SKIPPED, PyNone, PyNone, "ok")
    /\ progress' = LogSkip(progress)
    /\ idx' = idx + 1
    /\ signalled' = "none"
    /\ UNCHANGED <<rateVars, threadVars, clientVars,
                   max_retries, validate_downloads, pc, resume,
                   pending, file_path, exc, summary, behaviour, valid,
                   disk_faulty, passes, write_failures, fetches, marks,
                   reloaded, finishes>>

\* Variant: the skip does not go on to the next key.
RunSkip_Stay ==
    /\ pc = "loop"
    /\ idx <= Len(pending)
    /\ ShouldSkip(GetAttempts(state, CurrentKey))
    /\ UNCHANGED vars

\* The attempts of the key have reached max_retries: log_skip, continue.
RunSkip ==
    /\ pc = "loop"
    /\ idx <= Len(pending)
    /\ ShouldSkip(GetAttempts(state, CurrentKey))
    /\ progress' = LogSkip(progress)
    /\ idx' = idx + 1
    /\ signalled' = "none"
    /\ UNCHANGED <<rateVars, storeVars, threadVars, clientVars,
                   max_retries, validate_downloads, pc,
                   resume, pending, file_path, exc, summary, behaviour, valid,
                   disk_faulty, passes, write_failures, fetches, marks,
                   reloaded, finishes>>

\* Variant: the status is set in memory and the state file is not written.
RunSetStatus_Unsaved(status, path, error, then, handler) ==
    /\ state' = SetStatusState(state, CurrentKey, status, path, error)
    /\ disk' = disk
    /\ store_raised' = store_raised
    /\ pc' = then
    /\ exc' = exc
    /\ write_failures' = write_failures

\* A set_status call of run() on the current key; when _save_state raises,
\* control goes to `handler` with the OSError.
RunSetStatus(status, path, error, then, handler) ==
    \E out \in SaveOutcomesLeft :
        /\ SetStatus(CurrentKey, status, path, error, out)
        /\ IF out = "ok"
             THEN /\ pc' = then
                  /\ exc' = exc
                  /\ write_failures' = write_failures
             ELSE /\ pc' = handler
                  /\ exc' = MsgDiskFull
                  /\ write_failures' = write_failures + 1

\* Mark as in progress: set_status(date_str, IN_PROGRESS).
RunMarkInProgress ==
    /\ pc = "loop"
    /\ idx <= Len(pending)
    /\ ~ShouldSkip(GetAttempts(state, CurrentKey))
    /\ RunSetStatus(IN_PROGRESS, PyNone, PyNone, "admit", "except")
    /\ marks' = [marks EXCEPT ![CurrentKey] = @ + 1]
    /\ signalled' = "none"
    /\ slots' = 0
    /\ backoffs' = 0
    /\ UNCHANGED <<rateVars, threadVars, httpVars,
                   max_retries, validate_downloads, resume, pending,
                   idx, file_path, progress, summary, behaviour, valid,
                   disk_faulty, passes, fetches, reloaded,
                   finishes>>

\* Apply rate limiting: rate_limiter.wait_if_needed().
RunAdmit ==
    /\ pc = "admit"
    /\ WaitIfNeeded
    /\ slots' = slots + 1
    /\ pc' = "fetch"
    /\ UNCHANGED <<rateLogVars, storeVars, threadVars, httpVars, backoffs,
                   max_retries, validate_downloads, resume, pending,
                   idx, file_path, exc, progress, summary, behaviour, valid,
                   disk_faulty, passes, write_failures, fetches, marks, signalled,
                   reloaded, finishes>>

\* The remote either answers every fetch in any way, or answers every fetch
\* of a key the same way.
AnyBehaviour == [k \in Keys |-> "any"]
FixedBehaviours == [Keys -> Outcomes]
Behaviours == FixedBehaviours \cup {AnyBehaviour}

\* The outcomes the remote can give for a key.
OutcomesOf(date_key) ==
    IF behaviour[date_key] = "any" THEN Outcomes ELSE {behaviour[date_key]}

\* Download: file_path = self.download_for_date(target_date).
RunFetch ==
    /\ pc = "fetch"
    /\ fetches' = [fetches EXCEPT ![CurrentKey] = @ + 1]
    /\ \E o \in OutcomesOf(CurrentKey) :
          CASE o = "ok" ->
                  /\ file_path' = PathOf(CurrentKey)
                  /\ valid' = TRUE
                  /\ exc' = exc
                  /\ pc' = "commit"
            [] o \in {"invalid", "invalid429"} ->
                  /\ file_path' = PathOf(CurrentKey)
                  /\ valid' = FALSE
                  /\ exc' = IF validate_downloads THEN MessageOf(o) ELSE exc
                  /\ pc' = "commit"
            [] o = "none" ->
                  /\ file_path' = PyNone
                  /\ valid' = valid
                  /\ exc' = exc
                  /\ pc' = "commit"
            [] o \in {"error", "error429", "error_empty"} ->
                  /\ file_path' = file_path
                  /\ valid' = valid
                  /\ exc' = MessageOf(o)
                  /\ pc' = "except"
    /\ UNCHANGED <<rateVars, storeVars, threadVars, clientVars,
                   max_retries, validate_downloads,
                   resume, pending, idx, progress, summary, behaviour,
                   disk_faulty, passes, write_failures, marks, signalled,
                   reloaded,
                   finishes>>

\* download_for_date returned None: FAILED, log_failure, on_success_response.
RunReturnedNone ==
    /\ pc = "commit"
    /\ file_path = PyNone
    /\ RunSetStatus(FAILED, PyNone, PyStr(MsgReturnedNone), "loop", "except")
    /\ IF pc' = "loop"
         THEN /\ progress' = LogFailure(progress)
              /\ OnSuccessResponse
              /\ signalled' = "success"
              /\ idx' = idx + 1
         ELSE UNCHANGED <<limiterVars, progress, idx, signalled>>
    /\ UNCHANGED <<rateLogVars, threadVars, clientVars,
                   max_retries, validate_downloads, resume,
                   pending, file_path, summary, behaviour, valid, disk_faulty,
                   passes, fetches, marks, reloaded,
                   finishes>>

\* The file does not validate: FAILED with the path kept, log_failure.
RunValidationFailed ==
    /\ pc = "commit"
    /\ file_path # PyNone
    /\ validate_downloads
    /\ ~valid
    /\ RunSetStatus(FAILED, file_path, PyStr(ValidationMessage(exc)),
                    "loop", "except")
    /\ IF pc' = "loop"
         THEN /\ progress' = LogFailure(progress)
              /\ idx' = idx + 1
         ELSE UNCHANGED <<progress, idx>>
    /\ UNCHANGED <<rateVars, threadVars, clientVars,
                   max_retries, validate_downloads, resume, pending,
                   file_path, summary, behaviour, valid, disk_faulty, passes,
                   fetches, marks, signalled, reloaded,
                   finishes>>

\* Mark as completed: COMPLETED with the path, log_success,
\* on_success_response.
RunCompleted ==
    /\ pc = "commit"
    /\ file_path # PyNone
    /\ ~validate_downloads \/ valid
    /\ RunSetStatus(COMPLETED, file_path, PyNone, "loop", "except")
    /\ IF pc' = "loop"
         THEN /\ progress' = LogSuccess(progress)
              /\ OnSuccessResponse
              /\ signalled' = "success"
              /\ idx' = idx + 1
         ELSE UNCHANGED <<limiterVars, progress, idx, signalled>>
    /\ UNCHANGED <<rateLogVars, threadVars, clientVars,
                   max_retries, validate_downloads, resume,
                   pending, file_path, summary, behaviour, valid, disk_faulty,
                   passes, fetches, marks, reloaded,
                   finishes>>

\* except Exception as e: FAILED with str(e), log_failure, and
\* on_429_response when the message names a rate limit.  When this
\* set_status raises, the exception leaves run().
RunExcept ==
    /\ pc = "except"
    /\ RunSetStatus(FAILED, PyNone, PyStr(exc), "loop", "raised")
    /\ IF pc' = "loop"
         THEN /\ progress' = LogFailure(progress)
              /\ idx' = idx + 1
              /\ IF IsRateLimitMessage(exc)
                   THEN /\ On429Response(RetryDelay)
                        /\ signalled' = "overload"
                        /\ backoffs' = backoffs + 1
                   ELSE UNCHANGED <<limiterVars, signalled, backoffs>>
         ELSE UNCHANGED <<limiterVars, progress, idx, signalled, backoffs>>
    /\ UNCHANGED <<rateLogVars, threadVars, httpVars, slots,
                   max_retries, validate_downloads, resume,
                   pending, file_path, summary, behaviour, valid, disk_faulty,
                   passes, fetches, marks, reloaded,
                   finishes>>

\* The process ends, wherever run() is, and a new one starts: a new
\* StateManager on the state file and a new AdaptiveRateLimiter.
Restart ==
    /\ pc # "idle"
    /\ NewStateManager
    /\ requests_per_minute' = initial_rpm
    /\ consecutive_429s' = 0
    /\ request_times' = <<>>
    /\ pc' = "idle"
    /\ pending' = <<>>
    /\ idx' = 1
    /\ file_path' = PyNone
    /\ exc' = <<>>
    /\ progress' = NoProgress
    /\ reloaded' = TRUE
    /\ UNCHANGED <<initial_rpm, backoff_factor, now, rateLogVars, threadVars,
                   clientVars,
                   max_retries,
                   validate_downloads, resume, summary, behaviour, valid,
                   disk_faulty, passes, write_failures, fetches, marks, signalled,
                   finishes>>

\* ------------------------------------------------------ initial conditions
\* AdaptiveRateLimiter.__init__
InitLimiter ==
    /\ requests_per_minute = initial_rpm
    /\ consecutive_429s = 0
    /\ request_times = <<>>
    /\ now = 0
    /\ recovering = FALSE
    /\ admitLog = <<>>
    /\ epochStart = 0
    /\ overloads = 0
    /\ overloadAt = 0
    /\ prev_rpm = initial_rpm
    /\ last_signal = "none"
    /\ success_toggle = FALSE

\* The threads that share the store or the limiter, before any of their
\* calls: threading.Lock() is created unlocked.
Threads == {1, 2}
NoThread == 0

InitThreads ==
    /\ store_lock = NoThread
    /\ rate_lock = NoThread
    /\ tpc = [t \in Threads |-> "idle"]
    /\ targ = [t \in Threads |-> [op |-> "none", date_key |-> "", status |-> ""]]
    /\ twake = [t \in Threads |-> 0]
    /\ returned = [t \in Threads |-> {}]
    /\ calls = 0

\* No HttpClient call is in progress and no key is being handled.
InitClient ==
    /\ http_pc = "idle"
    /\ http_max_retries = 3
    /\ attempt = 0
    /\ last_exception = "None"
    /\ sent = 0
    /\ slept = 0
    /\ retried_after = {}
    /\ http_result = [kind |-> "none", class |-> "", message |-> <<>>]
    /\ slots = 0
    /\ backoffs = 0

\* BaseScraper.__init__ and the environment, before any run() call.
InitRun ==
    /\ max_retries \in MaxRetriesValues
    /\ validate_downloads \in BOOLEAN
    /\ pc = "idle"
    /\ resume = TRUE
    /\ pending = <<>>
    /\ idx = 1
    /\ file_path = PyNone
    /\ exc = <<>>
    /\ progress = NoProgress
    /\ summary = GetSummary(InitState)
    /\ behaviour \in Behaviours
    /\ valid = TRUE
    /\ disk_faulty \in BOOLEAN
    /\ passes = 0
    /\ reloaded = FALSE
    /\ finishes = <<>>
    /\ write_failures = 0
    /\ fetches = [k \in Keys |-> 0]
    /\ marks = [k \in Keys |-> 0]
    /\ signalled = "none"
    /\ InitThreads
    /\ InitClient

\* The run loop at rest, for the specifications of one component.
InitRunIdle ==
    /\ InitRun
    /\ max_retries = 3
    /\ validate_downloads = TRUE
    /\ behaviour = AnyBehaviour
    /\ disk_faulty = TRUE

\* StateManager.__init__ on a file that is missing or does not parse.
InitStore ==
    /\ disk \in {FileMissing, FileGarbage}
    /\ state = LoadState(disk)
    /\ store_raised = FALSE

\* ------------------------------------------- the rate limiter on its own
InitRate ==
    /\ initial_rpm \in InitialRpms
    /\ backoff_factor \in BackoffFactors
    /\ InitLimiter
    /\ InitStore
    /\ disk = FileMissing
    /\ InitRunIdle

\* A caller asks for admission.
Admit ==
    /\ Len(admitLog) < MaxAdmits
    /\ WaitIfNeeded
    /\ admitLog' = Append(admitLog, now')
    /\ UNCHANGED <<recovering, epochStart, overloads, overloadAt, prev_rpm,
                   last_signal, success_toggle>>
    /\ UNCHANGED <<storeVars, runVars, threadVars, clientVars>>

\* The ceiling changed: the returns of wait_if_needed() from here on are
\* made at the new ceiling.
EpochAfter == IF requests_per_minute' # requests_per_minute
                THEN Len(admitLog) ELSE epochStart

\* The remote signals overload and the caller reports it.
Overload ==
    /\ ~recovering
    /\ overloads < MaxOverloads
    /\ \E retry_after \in RetryAfters : On429Response(retry_after)
    /\ overloads' = overloads + 1
    /\ overloadAt' = Len(admitLog)
    /\ prev_rpm' = requests_per_minute
    /\ last_signal' = "overload"
    /\ epochStart' = EpochAfter
    /\ UNCHANGED <<recovering, admitLog, success_toggle>>
    /\ UNCHANGED <<storeVars, runVars, threadVars, clientVars>>

\* A request succeeded and the caller reports it.
Success ==
    /\ OnSuccessResponse
    /\ prev_rpm' = requests_per_minute
    /\ last_signal' = "success"
    /\ success_toggle' = ~success_toggle
    /\ epochStart' = EpochAfter
    /\ UNCHANGED <<recovering, admitLog, overloads, overloadAt>>
    /\ UNCHANGED <<storeVars, runVars, threadVars, clientVars>>

\* Time passes between two calls.
Tick ==
    /\ now < MaxTime
    /\ now' = now + TickSize
    /\ UNCHANGED <<requests_per_minute, initial_rpm, backoff_factor,
                   consecutive_429s, request_times>>
    /\ UNCHANGED <<rateLogVars, storeVars, runVars, threadVars, clientVars>>

\* From here on the remote signals no overload any more.
StopOverload ==
    /\ ~recovering
    /\ overloads > 0
    /\ recovering' = TRUE
    /\ UNCHANGED <<admitLog, epochStart, overloads, overloadAt, prev_rpm,
                   last_signal, success_toggle>>
    /\ UNCHANGED <<limiterVars, storeVars, runVars, threadVars, clientVars>>

NextRate == Admit \/ Overload \/ Success \/ Tick \/ StopOverload

SpecRate == InitRate /\ [][NextRate]_vars

\* The caller keeps reporting successes.
FairSpecRate == SpecRate /\ WF_vars(Success)

\* ------------------------------------------------- the store on its own
\* Arguments tried for file_path, error and the metadata.
FilePathArgs == {PyNone, PyStr("a.csv")}
ErrorArgs == {PyNone, PyStr("Connection timeout")}
MetadataKeys == {"api_url"}
MetadataValues == {PyStr("https://example.com"), PyInt(1), PyTuple(<<1, 2>>)}

InitStoreOnly ==
    /\ initial_rpm = 2
    /\ backoff_factor = <<2, 1>>
    /\ InitLimiter
    /\ InitStore
    /\ InitRunIdle

\* A caller sets the status of a key.
StoreSetStatus ==
    /\ ~store_raised
    /\ \E date_key \in Keys, status \in DownloadStatus,
          fpath \in FilePathArgs, error \in ErrorArgs, out \in SaveOutcomes :
            /\ GetAttempts(state, date_key) < MaxAttempts
            /\ SetStatus(date_key, status, fpath, error, out)
    /\ UNCHANGED <<rateVars, runVars, threadVars, clientVars>>

\* A caller sets a metadata value.
StoreSetMetadata ==
    /\ ~store_raised
    /\ \E key \in MetadataKeys, value \in MetadataValues, out \in SaveOutcomes :
            SetMetadata(key, value, out)
    /\ UNCHANGED <<rateVars, runVars, threadVars, clientVars>>

\* A caller resets the store.
StoreReset ==
    /\ ~store_raised
    /\ \E out \in SaveOutcomes : Reset(out)
    /\ UNCHANGED <<rateVars, runVars, threadVars, clientVars>>

\* The process ends and a new one opens the state file.
StoreReopen ==
    /\ NewStateManager
    /\ UNCHANGED <<rateVars, runVars, threadVars, clientVars>>

NextStore == StoreSetStatus \/ StoreSetMetadata \/ StoreReset \/ StoreReopen

SpecStore == InitStoreOnly /\ [][NextStore]_vars

\* ------------------------------------------- the store and its readers
\* Longest argument all_dates tried.
MaxDates == 2

\* A date no set_status call is made on.
UnknownKey == "2024-01-03"

\* Arguments all_dates tried: the lists of at most MaxDates dates, in any
\* order and with repetitions.
DateLists ==
    UNION {[1..n -> Keys \cup {UnknownKey}] : n \in 0..MaxDates}

\* Variant: the lookup is written with setdefault and records the key.
AfterReads_SetDefault(st, date_key, all_dates) ==
    IF date_key \in DOMAIN st.downloads
      THEN st
      ELSE SetStatusState(st, date_key, PENDING, PyNone, PyNone)

\* self._state after get_status(date_key), get_attempts(date_key),
\* get_pending_dates(all_dates) and get_summary(): none of them assigns to
\* it or calls _save_state.
AfterReads(st, date_key, all_dates) == st

\* A caller reads the store: the status and the attempts of a key, the
\* pending dates of a list and the summary, which it keeps.
StoreRead ==
    /\ ~store_raised
    /\ \E date_key \in Keys \cup {UnknownKey}, all_dates \in DateLists :
          state' = AfterReads(state, date_key, all_dates)
    /\ summary' = GetSummary(state)
    /\ UNCHANGED <<disk, store_raised, rateVars>>
    /\ UNCHANGED <<threadVars, clientVars,
                   max_retries, validate_downloads, pc, resume, pending, idx,
                   file_path, exc, progress, behaviour, valid, disk_faulty,
                   passes, write_failures, fetches, marks, signalled, reloaded,
                   finishes>>

\* A caller sets the status of a key, without path or error, and the state
\* file is written.
StoreMark ==
    /\ ~store_raised
    /\ \E date_key \in Keys, status \in DownloadStatus :
            /\ GetAttempts(state, date_key) < MaxAttempts
            /\ SetStatus(date_key, status, PyNone, PyNone, "ok")
    /\ UNCHANGED <<rateVars, runVars, threadVars, clientVars>>

NextStoreRead == StoreMark \/ StoreRead

SpecStoreRead == InitStoreOnly /\ [][NextStoreRead]_vars

\* --------------------------------- the store, opened on any state file
\* The JSON document {}: valid JSON that is no snapshot.
EmptyObject == <<>>

\* A snapshot written by an earlier process.
EarlierState ==
    SetStatusState(InitState, AllKeys[1], COMPLETED, PyStr("a.csv"), PyNone)

\* The state files a store is opened on: missing; unreadable or not valid
\* JSON; valid JSON without "downloads"; a snapshot.
FileConditions ==
    {FileMissing, FileGarbage, FileJson(EmptyObject), FileJson(Dump(EarlierState))}

\* The file holds a snapshot.
WellFormed(file) == file.kind = "json" /\ "downloads" \in DOMAIN file.doc

InitOpened ==
    /\ initial_rpm = 2
    /\ backoff_factor = <<2, 1>>
    /\ InitLimiter
    /\ disk \in FileConditions
    /\ state = LoadState(disk)
    /\ store_raised = FALSE
    /\ InitRunIdle

\* get_status, get_attempts, get_pending_dates, get_summary, set_status or
\* set_metadata on a state without "downloads" and "metadata": the lookup
\* raises KeyError before anything is changed.
StoreCallRaises ==
    /\ ~HasDownloads(state)
    /\ ~store_raised
    /\ store_raised' = TRUE
    /\ UNCHANGED <<state, disk, rateVars, runVars, threadVars, clientVars>>

NextOpened ==
    \/ HasDownloads(state) /\ StoreSetStatus
    \/ HasDownloads(state) /\ StoreSetMetadata
    \/ StoreReset
    \/ StoreReopen
    \/ StoreCallRaises

SpecOpened == InitOpened /\ [][NextOpened]_vars

\* ------------------------------- the store, with a process that can die
\* Where in _save_state the process can die: before open(.., "w"), after it
\* (the file is truncated, json.dump has written nothing or a part), after
\* the with block has closed the file.
CrashPoints == {"before_open", "after_open", "after_close"}

\* The file a process that dies at `point` of _save_state leaves behind.
CrashedFile(st, point) ==
    CASE point = "before_open" -> disk
      [] point = "after_open" -> FileGarbage
      [] point = "after_close" -> FileJson(Dump(st))

\* The process dies inside the _save_state of a set_status call, and a new
\* process opens the state file.
StoreCrashInSetStatus ==
    /\ ~store_raised
    /\ \E date_key \in Keys, status \in DownloadStatus,
          fpath \in FilePathArgs, error \in ErrorArgs, point \in CrashPoints :
            /\ GetAttempts(state, date_key) < MaxAttempts
            /\ disk' = CrashedFile(SetStatusState(state, date_key, status,
                                                  fpath, error), point)
    /\ state' = LoadState(disk')
    /\ store_raised' = FALSE
    /\ UNCHANGED <<rateVars, runVars, threadVars, clientVars>>

NextStoreCrash == NextStore \/ StoreCrashInSetStatus

SpecStoreCrash == InitStoreOnly /\ [][NextStoreCrash]_vars

\* ------------------------------------ the store, called from two threads
\* No call in progress.
NoCall == [op |-> "none", date_key |-> "", status |-> ""]

\* threading.Lock.acquire returns once the lock is free.
CanAcquire(lock) == lock = NoThread

\* Variant: the lock is handed out whoever holds it.
Acquired_Always(lock, t) == TRUE

\* `with self._lock:` is entered by thread t: the lock was free.
Acquired(lock, t) == CanAcquire(lock)

\* set_status, lines 100-108: the lock is taken, the record is created if
\* the key has none, and `entry` refers to the record.
ThreadEnter(t) ==
    /\ tpc[t] = "idle"
    /\ calls < MaxCalls
    /\ Acquired(store_lock, t)
    /\ store_lock' = t
    /\ \E date_key \in Keys, status \in DownloadStatus :
          /\ targ' = [targ EXCEPT ![t] = [op |-> "set_status",
                                          date_key |-> date_key,
                                          status |-> status]]
          /\ state' =
                IF date_key \in DOMAIN state.downloads
                  THEN state
                  ELSE [state EXCEPT !.downloads =
                          [k \in DOMAIN state.downloads \cup {date_key} |->
                              IF k = date_key
                                THEN [status |-> status, file_path |-> PyNone,
                                      error |-> PyNone, attempts |-> 0]
                                ELSE state.downloads[k]]]
    /\ tpc' = [tpc EXCEPT ![t] = "locked"]
    /\ calls' = calls + 1
    /\ UNCHANGED <<disk, store_raised, rate_lock, twake, returned>>
    /\ UNCHANGED <<rateVars, runVars, clientVars>>

\* set_status, lines 110-120: the record is updated through `entry` and the
\* lock is released. When reset() has replaced self._state since `entry`
\* was taken, the update goes to a record of the replaced state.
ThreadUpdate(t) ==
    /\ tpc[t] \in {"locked", "orphaned"}
    /\ state' = IF tpc[t] = "locked"
                  THEN SetStatusState(state, targ[t].date_key, targ[t].status,
                                      PyNone, PyNone)
                  ELSE state
    /\ store_lock' = NoThread
    /\ tpc' = [tpc EXCEPT ![t] = "mutated"]
    /\ UNCHANGED <<disk, store_raised, rate_lock, targ, twake, returned,
                   calls>>
    /\ UNCHANGED <<rateVars, runVars, clientVars>>

\* reset, line 203: self._state is assigned, the lock is not taken.
ThreadResetAssign(t) ==
    /\ tpc[t] = "idle"
    /\ calls < MaxCalls
    /\ state' = InitState
    /\ targ' = [targ EXCEPT ![t] = [NoCall EXCEPT !.op = "reset"]]
    /\ tpc' = [u \in Threads |->
                  IF u = t THEN "mutated"
                  ELSE IF tpc[u] = "locked" THEN "orphaned"
                  ELSE tpc[u]]
    /\ calls' = calls + 1
    /\ UNCHANGED <<disk, store_raised, store_lock, rate_lock, twake,
                   returned>>
    /\ UNCHANGED <<rateVars, runVars, clientVars>>

\* _save_state, lines 65-68: the lock is taken and open(.., "w") truncates
\* the file.
ThreadSaveOpen(t) ==
    /\ tpc[t] = "mutated"
    /\ Acquired(store_lock, t)
    /\ store_lock' = t
    /\ disk' = FileGarbage
    /\ tpc' = [tpc EXCEPT ![t] = "saving"]
    /\ UNCHANGED <<state, store_raised, rate_lock, targ, twake, returned,
                   calls>>
    /\ UNCHANGED <<rateVars, runVars, clientVars>>

\* Variant: a call writes the record of its own key only.
ThreadSaveDump_OwnRecord(t) ==
    /\ tpc[t] = "saving"
    /\ disk' = SavedFile([state EXCEPT !.downloads =
                            [k \in DOMAIN state.downloads
                                     \cap {targ[t].date_key} |->
                                state.downloads[k]]], "ok")
    /\ store_lock' = IF store_lock = t THEN NoThread ELSE store_lock
    /\ tpc' = [tpc EXCEPT ![t] = "idle"]
    /\ returned' = [returned EXCEPT ![t] = @ \cup {targ[t]}]
    /\ targ' = [targ EXCEPT ![t] = NoCall]
    /\ UNCHANGED <<state, store_raised, rate_lock, twake, calls>>
    /\ UNCHANGED <<rateVars, runVars, clientVars>>

\* _save_state, line 69, and the return of the call: json.dump writes
\* self._state as it is now, the file is closed, the lock released.
ThreadSaveDump(t) ==
    /\ tpc[t] = "saving"
    /\ disk' = SavedFile(state, "ok")
    /\ store_lock' = IF store_lock = t THEN NoThread ELSE store_lock
    /\ tpc' = [tpc EXCEPT ![t] = "idle"]
    /\ returned' = [returned EXCEPT ![t] = @ \cup {targ[t]}]
    /\ targ' = [targ EXCEPT ![t] = NoCall]
    /\ UNCHANGED <<state, store_raised, rate_lock, twake, calls>>
    /\ UNCHANGED <<rateVars, runVars, clientVars>>

NextStoreThreads ==
    \E t \in Threads :
        \/ ThreadEnter(t)
        \/ ThreadUpdate(t)
        \/ ThreadResetAssign(t)
        \/ ThreadSaveOpen(t)
        \/ ThreadSaveDump(t)

SpecStoreThreads == InitStoreOnly /\ [][NextStoreThreads]_vars

\* ---------------------------------- the limiter, called from two threads
InitRateThreads ==
    /\ initial_rpm = 2
    /\ backoff_factor = <<2, 1>>
    /\ InitLimiter
    /\ InitStore
    /\ disk = FileMissing
    /\ InitRunIdle

\* wait_if_needed, lines 34-49: the lock is taken, the clock is read, and
\* the call either has its time stamp or goes to sleep holding the lock.
ThreadAdmitBegin(t) ==
    /\ tpc[t] = "idle"
    /\ calls < MaxCalls
    /\ Acquired(rate_lock, t)
    /\ rate_lock' = t
    /\ IF UnderLimit \/ WaitTime(request_times[1]) = 0
         THEN /\ tpc' = [tpc EXCEPT ![t] = "admitting"]
              /\ twake' = [twake EXCEPT ![t] = now]
         ELSE /\ tpc' = [tpc EXCEPT ![t] = "sleeping"]
              /\ twake' = [twake EXCEPT ![t] =
                              now + WaitTime(request_times[1])]
    /\ calls' = calls + 1
    /\ UNCHANGED <<store_lock, targ, returned>>
    /\ UNCHANGED <<rateVars, storeVars, runVars, clientVars>>

\* wait_if_needed, lines 39-40 and 50-53: the time stamp (the clock read
\* before, or read again after the sleep) is appended, the lock released.
ThreadAdmitEnd(t) ==
    /\ tpc[t] \in {"admitting", "sleeping"}
    /\ now' = IF tpc[t] = "sleeping" THEN Max2(now, twake[t]) ELSE now
    /\ request_times' =
          DequeAppend(request_times,
                      IF tpc[t] = "sleeping" THEN now' ELSE twake[t])
    /\ admitLog' = Append(admitLog, now')
    /\ rate_lock' = IF rate_lock = t THEN NoThread ELSE rate_lock
    /\ tpc' = [tpc EXCEPT ![t] = "idle"]
    /\ UNCHANGED <<requests_per_minute, initial_rpm, backoff_factor,
                   consecutive_429s>>
    /\ UNCHANGED <<recovering, epochStart, overloads, overloadAt, prev_rpm,
                   last_signal, success_toggle>>
    /\ UNCHANGED <<store_lock, targ, twake, returned, calls>>
    /\ UNCHANGED <<storeVars, runVars, clientVars>>

\* on_429_response, lines 104-113: the lock is taken, the counter and the
\* ceiling are updated, and the call goes to sleep holding the lock.
ThreadOverloadBegin(t) ==
    /\ tpc[t] = "idle"
    /\ calls < MaxCalls
    /\ Acquired(rate_lock, t)
    /\ rate_lock' = t
    /\ consecutive_429s' = consecutive_429s + 1
    /\ requests_per_minute' = BackoffRpm(requests_per_minute, backoff_factor)
    /\ \E retry_after \in RetryAfters :
          twake' = [twake EXCEPT ![t] = now + retry_after]
    /\ tpc' = [tpc EXCEPT ![t] = "cooling"]
    /\ overloads' = overloads + 1
    /\ overloadAt' = Len(admitLog)
    /\ prev_rpm' = requests_per_minute
    /\ last_signal' = "overload"
    /\ epochStart' = EpochAfter
    /\ calls' = calls + 1
    /\ UNCHANGED <<initial_rpm, backoff_factor, request_times, now>>
    /\ UNCHANGED <<recovering, admitLog, success_toggle>>
    /\ UNCHANGED <<store_lock, targ, returned>>
    /\ UNCHANGED <<storeVars, runVars, clientVars>>

\* on_429_response, lines 113-116: the sleep returns, the recent requests
\* are cleared, the lock is released.
ThreadOverloadEnd(t) ==
    /\ tpc[t] = "cooling"
    /\ now' = Max2(now, twake[t])
    /\ request_times' = <<>>
    /\ rate_lock' = IF rate_lock = t THEN NoThread ELSE rate_lock
    /\ tpc' = [tpc EXCEPT ![t] = "idle"]
    /\ UNCHANGED <<requests_per_minute, initial_rpm, backoff_factor,
                   consecutive_429s>>
    /\ UNCHANGED <<rateLogVars, storeVars, runVars, clientVars>>
    /\ UNCHANGED <<store_lock, targ, twake, returned, calls>>

\* on_success_response, the whole call: nothing in it blocks once the lock
\* is held.
ThreadSuccess(t) ==
    /\ tpc[t] = "idle"
    /\ calls < MaxCalls
    /\ Acquired(rate_lock, t)
    /\ OnSuccessResponse
    /\ prev_rpm' = requests_per_minute
    /\ last_signal' = "success"
    /\ success_toggle' = ~success_toggle
    /\ epochStart' = EpochAfter
    /\ calls' = calls + 1
    /\ UNCHANGED <<recovering, admitLog, overloads, overloadAt>>
    /\ UNCHANGED <<store_lock, rate_lock, tpc, targ, twake, returned>>
    /\ UNCHANGED <<storeVars, runVars, clientVars>>

NextRateThreads ==
    \/ \E t \in Threads :
          \/ ThreadAdmitBegin(t)
          \/ ThreadAdmitEnd(t)
          \/ ThreadOverloadBegin(t)
          \/ ThreadOverloadEnd(t)
          \/ ThreadSuccess(t)
    \/ Tick

SpecRateThreads == InitRateThreads /\ [][NextRateThreads]_vars

\* ------------------------------------------- HttpClient._request_with_retry
\* Values of HttpClient.max_retries tried (JAOAPIScraper passes
\* config.max_retries).
HttpMaxRetriesValues == {0, 1, 2, 3}

\* Retry-After of a 429 response: no header, a number of seconds, an
\* HTTP-date (RFC 9110 allows both forms).
RetryAfterHeaders == {"absent", "seconds", "date"}

\* The seconds a Retry-After header names.
RetryAfterSeconds == TickSize

\* What self._session.request does: the status of the response it returns
\* (with the Retry-After header of a 429), or the exception it raises.
Answers ==
    {[kind |-> k, header |-> "absent"] :
        k \in {"200", "404", "500", "timeout", "connection", "redirects"}}
      \cup {[kind |-> "429", header |-> h] : h \in RetryAfterHeaders}

\* The answers that pass the 429 check and raise_for_status: the response
\* is returned.
IsOk(a) == a.kind = "200"

\* requests.exceptions.Timeout
IsTimeout(a) == a.kind = "timeout"

\* The RequestException carries a response with a 4xx status other than 429
\* (TooManyRedirects carries the 3xx response, ConnectionError none).
IsClientError(a) == a.kind = "404"

\* Variant: the header is taken for seconds whatever it holds.
ParsesAsInt_Lenient(h) == TRUE

\* int(response.headers.get("Retry-After", str(self.retry_delay))) returns;
\* it raises ValueError when the header is not a decimal integer.
ParsesAsInt(h) == h \in {"absent", "seconds"}

RetryAfterOf(h) == IF h = "absent" THEN RetryDelay ELSE RetryAfterSeconds

\* How a call ends.
NoResult == [kind |-> "none", class |-> "", message |-> <<>>]
Returned == [kind |-> "returned", class |-> "Response", message |-> <<>>]
Raised(class, message) ==
    [kind |-> "raised", class |-> class, message |-> message]

\* str(e) of the exceptions, as sequences of words (cut so that "429" and
\* "rate limit" are found as words where the text holds them).
MsgRateLimitedAfter(n) ==
    <<"Rate", "limit", "ed", "(", "429", ")", "after", ToString(n),
      "attempts">>
MsgClientError(a) == <<"Client", "error:", a.kind, "Error">>
MsgRequestFailed(n, e) ==
    <<"Request", "failed", "after", ToString(n), "attempts:", e>>
MsgInvalidLiteral == <<"invalid", "literal", "for", "int()">>

\* _request_with_retry is called on a client made with some max_retries.
HttpCall ==
    /\ http_pc \in {"idle", "done"}
    /\ http_max_retries' \in HttpMaxRetriesValues
    /\ http_pc' = "loop"
    /\ attempt' = 0
    /\ last_exception' = "None"
    /\ sent' = 0
    /\ slept' = 0
    /\ retried_after' = {}
    /\ http_result' = NoResult
    /\ UNCHANGED <<rateVars, storeVars, runVars, threadVars, countVars>>

\* `if attempt < self.max_retries - 1: time.sleep(delay); continue`, and
\* the end of the loop body otherwise: the loop goes on to the next attempt.
NextAttempt(a, delay) ==
    /\ attempt' = attempt + 1
    /\ IF attempt < http_max_retries - 1
         THEN /\ slept' = slept + delay
              /\ retried_after' = retried_after \cup {a.kind}
         ELSE UNCHANGED <<slept, retried_after>>
    /\ http_pc' = "loop"
    /\ http_result' = http_result

\* The call ends.
Ends(result) ==
    /\ http_pc' = "done"
    /\ http_result' = result
    /\ UNCHANGED <<attempt, slept, retried_after>>

\* One iteration of the loop (lines 161-202): a request is sent and what
\* comes back is handled.
HttpRequest ==
    /\ http_pc = "loop"
    /\ attempt < http_max_retries
    /\ sent' = sent + 1
    /\ \E a \in Answers :
          CASE a.kind = "429" ->
                  /\ last_exception' = last_exception
                  /\ IF ~ParsesAsInt(a.header)
                       THEN Ends(Raised("ValueError", MsgInvalidLiteral))
                       ELSE IF attempt < http_max_retries - 1
                              THEN NextAttempt(a, RetryAfterOf(a.header))
                              ELSE Ends(Raised("HttpClientError",
                                      MsgRateLimitedAfter(http_max_retries)))
            [] IsOk(a) ->
                  /\ last_exception' = last_exception
                  /\ Ends(Returned)
            [] IsTimeout(a) ->
                  /\ last_exception' = a.kind
                  /\ NextAttempt(a, RetryDelay)
            [] OTHER ->
                  /\ last_exception' = a.kind
                  /\ IF IsClientError(a)
                       THEN Ends(Raised("HttpClientError", MsgClientError(a)))
                       ELSE NextAttempt(a, RetryDelay)
    /\ UNCHANGED http_max_retries
    /\ UNCHANGED <<rateVars, storeVars, runVars, threadVars, countVars>>

\* The loop is exhausted (lines 204-208): all retries failed.
HttpExhausted ==
    /\ http_pc = "loop"
    /\ attempt >= http_max_retries
    /\ Ends(Raised("HttpClientError",
                   MsgRequestFailed(http_max_retries, last_exception)))
    /\ UNCHANGED <<http_max_retries, last_exception, sent>>
    /\ UNCHANGED <<rateVars, storeVars, runVars, threadVars, countVars>>

NextHttp == HttpCall \/ HttpRequest \/ HttpExhausted

InitHttpOnly ==
    /\ initial_rpm = 2
    /\ backoff_factor = <<2, 1>>
    /\ InitLimiter
    /\ InitStore
    /\ disk = FileMissing
    /\ InitRunIdle

SpecHttp == InitHttpOnly /\ [][NextHttp]_vars

\* ------------------------------------------------- the run loop
\* The scraper as BaseScraper.__init__ leaves it, on a fresh state file.
InitScraper ==
    /\ initial_rpm = 2
    /\ backoff_factor = <<2, 1>>
    /\ InitLimiter
    /\ InitStore
    /\ disk = FileMissing
    /\ InitRun

Next ==
    \/ RunStart
    \/ RunFinish
    \/ RunSkip
    \/ RunMarkInProgress
    \/ RunAdmit
    \/ RunFetch
    \/ RunReturnedNone
    \/ RunValidationFailed
    \/ RunCompleted
    \/ RunExcept
    \/ Restart

\* The run loop against a remote that answers in any way, on a disk that
\* takes every write.
Init ==
    /\ InitScraper
    /\ behaviour = AnyBehaviour
    /\ disk_faulty = FALSE

Spec == Init /\ [][Next]_vars

\* A step of a pass: run() is one thread of sequential code, so when a
\* step of the pass can be taken and the process is not killed, it is
\* taken (every fetch and validation returns or raises).
PassStep ==
    \/ RunFinish
    \/ RunSkip
    \/ RunMarkInProgress
    \/ RunAdmit
    \/ RunFetch
    \/ RunReturnedNone
    \/ RunValidationFailed
    \/ RunCompleted
    \/ RunExcept

\* The run loop with max_retries 1 or 2, where the steps of a pass are
\* taken.
InitFair ==
    /\ Init
    /\ max_retries \in {1, 2}

FairSpec == InitFair /\ [][Next]_vars /\ WF_vars(PassStep)

\* run(resume=True) is called.
RunStartResumed == RunStart /\ resume'

\* One process that calls run(resume=True) again and again.
NextResumed == RunStartResumed \/ PassStep

FairSpecResumed ==
    /\ Init
    /\ [][NextResumed]_vars
    /\ WF_vars(PassStep)
    /\ WF_vars(RunStartResumed)

\* The run loop against a remote that answers in any way, on a disk whose
\* writes can fail.
InitFaulty ==
    /\ InitScraper
    /\ behaviour = AnyBehaviour
    /\ validate_downloads = TRUE
    /\ disk_faulty = TRUE

SpecFaulty == InitFaulty /\ [][Next]_vars

\* The run loop against a remote that answers every fetch of a key the same
\* way, on a disk that takes every write.
InitResume ==
    /\ InitScraper
    /\ behaviour \in FixedBehaviours
    /\ disk_faulty = FALSE

SpecResume == InitResume /\ [][Next]_vars

\* ------------------------------------- the run loop of JAOAPIScraper
\* What http_client.get and the rest of download_for_date come to: a file
\* that validates, a file that does not, an empty "data" list, an
\* HttpClientError that names no 429, the HttpClientError raised after
\* max_retries 429 responses, the ValueError of a 429 whose Retry-After is
\* not a number.
JaoOutcomes ==
    {"ok", "invalid", "nodata", "error", "error429", "error_header"}

\* The outcomes that are an HttpClientError, which _fetch_data catches.
JaoHttpClientErrors == {"error", "error429"}

\* str(e) of what download_for_date raises.
MsgNoData == <<"No", "data", "returned", "for", "date">>
JaoMessageOf(o) ==
    CASE o = "nodata" -> MsgNoData
      [] o = "error" -> MsgRequestFailed(max_retries, "timeout")
      [] o = "error429" -> MsgRateLimitedAfter(max_retries)
      [] o = "error_header" -> MsgInvalidLiteral

\* download_for_date, up to the request: _fetch_data calls
\* self.rate_limiter.wait_if_needed() (api_scraper.py:123).
JaoAdmit ==
    /\ pc = "fetch"
    /\ WaitIfNeeded
    /\ slots' = slots + 1
    /\ fetches' = [fetches EXCEPT ![CurrentKey] = @ + 1]
    /\ pc' = "request"
    /\ UNCHANGED <<rateLogVars, storeVars, threadVars, httpVars, backoffs,
                   max_retries, validate_downloads, resume, pending,
                   idx, file_path, exc, progress, summary, behaviour, valid,
                   disk_faulty, passes, write_failures, marks, signalled,
                   reloaded, finishes>>

\* download_for_date, from the request on: http_client.get, and either the
\* file is written and its path returned, or an exception leaves the call;
\* for an HttpClientError that names a 429, _fetch_data calls
\* on_429_response(retry_delay) before it raises it again
\* (api_scraper.py:134-137).
JaoRequest ==
    /\ pc = "request"
    /\ \E o \in JaoOutcomes :
          /\ CASE o = "ok" ->
                    /\ file_path' = PathOf(CurrentKey)
                    /\ valid' = TRUE
                    /\ exc' = exc
                    /\ pc' = "commit"
              [] o = "invalid" ->
                    /\ file_path' = PathOf(CurrentKey)
                    /\ valid' = FALSE
                    /\ exc' = IF validate_downloads THEN MessageOf(o) ELSE exc
                    /\ pc' = "commit"
              [] OTHER ->
                    /\ file_path' = file_path
                    /\ valid' = valid
                    /\ exc' = JaoMessageOf(o)
                    /\ pc' = "except"
          /\ IF /\ o \in JaoHttpClientErrors
                /\ IsRateLimitMessage(JaoMessageOf(o))
               THEN /\ On429Response(RetryDelay)
                    /\ backoffs' = backoffs + 1
               ELSE UNCHANGED <<limiterVars, backoffs>>
    /\ UNCHANGED <<rateLogVars, storeVars, threadVars, httpVars, slots,
                   max_retries, validate_downloads, resume, pending, idx,
                   progress, summary, behaviour, disk_faulty, passes,
                   write_failures, fetches, marks, signalled, reloaded,
                   finishes>>

NextJao ==
    \/ RunStart
    \/ RunFinish
    \/ RunSkip
    \/ RunMarkInProgress
    \/ RunAdmit
    \/ JaoAdmit
    \/ JaoRequest
    \/ RunValidationFailed
    \/ RunCompleted
    \/ RunExcept
    \/ Restart

SpecJao == Init /\ [][NextJao]_vars

\* ==================================================================
\* Properties of the run loop
\* ==================================================================
\* A step of run() that handles the key the loop is at (not a restart).
AtKey(k) == pc = "loop" /\ idx <= Len(pending) /\ CurrentKey = k

C2_AttemptBound ==
    \A k \in Keys : GetAttempts(state, k) <= max_retries + 1

\* C3: with a remote that answers every fetch of a key the same way and a
\* disk that takes every write, a run(resume=True) that follows a
\* run(resume=True) ends with the completed keys the first one ended with.
C3_IdempotentResume ==
    (behaviour \in FixedBehaviours /\ write_failures = 0)
        => \A i \in DOMAIN finishes :
              (/\ i > 1
               /\ finishes[i].pass = finishes[i - 1].pass + 1
               /\ finishes[i].resume
               /\ finishes[i - 1].resume)
                => finishes[i].completed = finishes[i - 1].completed

\* Two resumed passes with a reload between them: one key completed in the
\* first, the other fetched in both and completed in neither.
C3_Witness ==
    /\ Len(finishes) = 2
    /\ finishes[1].resume /\ finishes[2].resume
    /\ finishes[2].pass = finishes[1].pass + 1
    /\ finishes[2].reloaded
    /\ \E k1, k2 \in Keys :
          /\ k1 \in finishes[1].completed
          /\ k2 \notin finishes[2].completed
          /\ fetches[k2] = 2

\* The record of key k is FAILED with the message msg, and k is among the
\* failed dates.
RecordedFailed(st, k, msg) ==
    /\ GetStatus(st, k) = FAILED
    /\ st.downloads[k].error = PyStr(msg)
    /\ k \in GetFailedDates(st)

\* C13: an exception of download_for_date or of validate_file is caught:
\* the key is recorded FAILED with the message, run() goes on to the next
\* key, and run() never raises.
C13_PerKeyFailuresSwallowed ==
    /\ [](pc # "raised")
    /\ [][/\ (pc = "fetch" /\ pc' = "except")
                => exc' \in {MsgTimeout, MsgRateLimited, MsgEmpty}
          /\ (pc = "except" /\ pc' # "idle")
                => /\ RecordedFailed(state', CurrentKey, exc)
                   /\ progress' = LogFailure(progress)
                   /\ pc' = "loop"
                   /\ idx' = idx + 1
          /\ (pc = "commit" /\ file_path # PyNone /\ validate_downloads
                /\ ~valid /\ pc' # "idle")
                => /\ RecordedFailed(state', CurrentKey, ValidationMessage(exc))
                   /\ progress' = LogFailure(progress)
                   /\ pc' = "loop"
                   /\ idx' = idx + 1]_vars

\* A pass has ended in which the fetch of the first key raised and the file
\* of the second did not validate: both are recorded, the second after the
\* first.
C13_Witness ==
    /\ pc = "done"
    /\ pending = AllKeys
    /\ progress.failed = 2
    /\ RecordedFailed(state, AllKeys[1], MsgTimeout)
    /\ RecordedFailed(state, AllKeys[2], MsgValidation)

\* The outcomes of a fetch that fail the key.
FailingOutcomes == Outcomes \ {"ok"}

\* Every pass so far was a run(resume=True) that ran to its end, the
\* current one excepted.
OnlyResumedPasses ==
    /\ resume
    /\ Len(finishes) = passes - 1
    /\ \A i \in DOMAIN finishes : finishes[i].resume

\* C15: a key whose fetch fails every time is fetched in max_retries
\* successive run(resume=True) passes before a pass skips it: when it is
\* skipped, it has been fetched max_retries times.
C15_MaxRetriesAttempts ==
    [][\A k \in Keys :
          (/\ AtKey(k)
           /\ behaviour[k] \in FailingOutcomes
           /\ validate_downloads
           /\ OnlyResumedPasses
           /\ progress' = LogSkip(progress))
            => fetches[k] = max_retries]_vars

\* Key k is in the date list of the pass.
InPending(k) == \E i \in DOMAIN pending : pending[i] = k

\* C16: a run(resume=True) leaves the keys that are completed when it
\* starts out of its date list, and a pass does nothing with a key that is
\* not in its date list: no IN_PROGRESS, no fetch, no change of its record,
\* and the events logged are those of the keys of the list gone through.
C16_ResumeSkipsCompleted ==
    /\ [](pc = "loop" =>
            progress.completed + progress.failed + progress.skipped = idx - 1)
    /\ [][/\ (pc \in {"idle", "done"} /\ pc' = "loop" /\ resume')
                => \A k \in GetCompletedDates(state) :
                      \A i \in DOMAIN pending' : pending'[i] # k
          /\ (pc \notin {"idle", "done"} /\ pc' # "idle")
                => \A k \in Keys :
                      ~InPending(k)
                        => /\ marks'[k] = marks[k]
                           /\ fetches'[k] = fetches[k]
                           /\ GetStatus(state', k) = GetStatus(state, k)
                           /\ GetAttempts(state', k) = GetAttempts(state, k)
                           /\ k \in DOMAIN state.downloads
                                => state'.downloads[k] = state.downloads[k]]_vars

\* A resumed pass has ended that went through one key only, the other having
\* been completed by the pass before it and fetched that one time.
C16_Witness ==
    /\ pc = "done"
    /\ resume
    /\ passes = 2
    /\ \E k1, k2 \in Keys :
          /\ pending = <<k2>>
          /\ k1 # k2
          /\ GetStatus(state, k1) = COMPLETED
          /\ fetches[k1] = 1
          /\ fetches[k2] = 2

\* The status changes of the claimed DAG.
DagTransitions ==
    {<<PENDING, IN_PROGRESS>>, <<IN_PROGRESS, COMPLETED>>,
     <<IN_PROGRESS, FAILED>>, <<FAILED, IN_PROGRESS>>}

\* The status changes of the keys in a step.
StatusChanges ==
    {<<GetStatus(state, k), GetStatus(state', k)>> :
        k \in {j \in Keys : GetStatus(state, j) # GetStatus(state', j)}}

StartsNonResumed == pc \in {"idle", "done"} /\ pc' = "loop" /\ ~resume'

\* The step sets key k to IN_PROGRESS and goes on towards its fetch.
Reattempts(k) ==
    /\ marks'[k] = marks[k] + 1
    /\ GetStatus(state', k) = IN_PROGRESS
    /\ pc' = "admit"

\* Once set to IN_PROGRESS, the key is admitted and fetched.
FetchFollows ==
    /\ (pc = "admit" /\ pc' # "idle") => pc' = "fetch"
    /\ (pc = "fetch" /\ pc' # "idle")
          => fetches'[CurrentKey] = fetches[CurrentKey] + 1

\* C18: a run(resume=False) goes through all keys and sets every
\* one of them to IN_PROGRESS and fetches it, completed or not.
C18_NonResumeReattemptsAll ==
    [][/\ StartsNonResumed => pending' = AllKeys
       /\ \A k \in Keys :
             (AtKey(k) /\ ~resume /\ pc' # "idle") => Reattempts(k)
       /\ FetchFollows]_vars

\* A run(resume=False) has ended that fetched again a key completed by the
\* pass before it (its attempts were below max_retries).
C18_Witness ==
    /\ pc = "done"
    /\ ~resume
    /\ Len(finishes) = 2
    /\ finishes[2].pass = 2
    /\ \E k \in finishes[1].completed :
          /\ fetches[k] = 2
          /\ marks[k] = 2

\* The step records the final status of the key the loop is at and goes on
\* to the next key.
RecordsOutcome == pc \in {"commit", "except"} /\ pc' = "loop"

\* download_for_date returned a file, and validation is disabled or passed.
FetchedAndValid ==
    pc = "commit" /\ file_path # PyNone /\ (~validate_downloads \/ valid)

\* The reason of the failure that the step records.
FailureReason ==
    CASE pc = "except" -> PyStr(exc)
      [] pc = "commit" /\ file_path = PyNone -> PyStr(MsgReturnedNone)
      [] OTHER -> PyStr(ValidationMessage(exc))

\* C26: a key that run() has processed is COMPLETED, with the path of the
\* file, exactly when download_for_date returned a file and validation is
\* disabled or passed; in every other case it is FAILED with the reason of
\* the failure as its error, and with the path of the file when it is the
\* validation that failed.
C26_FinalStatusByOutcome ==
    [][RecordsOutcome =>
        LET record == state'.downloads[CurrentKey]
        IN  IF FetchedAndValid
              THEN /\ record.status = COMPLETED
                   /\ record.file_path = file_path
              ELSE /\ record.status = FAILED
                   /\ record.error # PyNone
                   /\ record.error = FailureReason
                   /\ (pc = "commit" /\ file_path # PyNone)
                        => record.file_path = file_path]_vars

\* download_for_date raised an exception whose message indicates an
\* overload (of the messages that occur, the one of the HTTP 429).
FetchRaisedOverload == pc = "except" /\ exc = MsgRateLimited

\* download_for_date returned None.
FetchedNothing == pc = "commit" /\ file_path = PyNone

\* C27: when run() records the outcome of a key it calls
\* on_success_response exactly when download_for_date returned None or the
\* key is recorded COMPLETED, and on_429_response(retry_delay) exactly when
\* download_for_date raised an exception that indicates an overload; after
\* a validation failure, whatever its message, it calls neither; and it
\* gives no signal at any other point of a pass.
C27_RateFeedbackByOutcome ==
    [][/\ RecordsOutcome
            => /\ signalled' = "success" <=> (FetchedNothing \/ FetchedAndValid)
               /\ FetchedAndValid
                    <=> GetStatus(state', CurrentKey) = COMPLETED
               /\ signalled' = "overload" <=> FetchRaisedOverload
               /\ signalled' = "success" => consecutive_429s' = 0
               /\ signalled' = "overload"
                    => /\ consecutive_429s' = consecutive_429s + 1
                       /\ now' = now + RetryDelay
                       /\ request_times' = <<>>
               /\ signalled' = "none" => UNCHANGED limiterVars
       /\ (~RecordsOutcome /\ pc' # "idle")
            => /\ signalled' \in {signalled, "none"}
               /\ UNCHANGED <<requests_per_minute, consecutive_429s>>
               /\ pc # "admit" => UNCHANGED limiterVars]_vars

\* The file of the first key did not validate, with a ValidationError that
\* names the number 429: the key is recorded FAILED with that message, and
\* no signal was given to the rate limiter.
C27_Witness ==
    /\ pc = "loop"
    /\ idx = 2
    /\ passes = 1
    /\ RecordedFailed(state, AllKeys[1], ValidationMessage(MsgFewRows))
    /\ IsRateLimitMessage(state.downloads[AllKeys[1]].error[2])
    /\ signalled = "none"
    /\ consecutive_429s = 0
    /\ requests_per_minute = initial_rpm

\* The outcome events logged so far in the pass.
EventsLogged == progress.completed + progress.failed + progress.skipped

\* The step logs exactly one outcome event.
LogsOneEvent ==
    \/ /\ progress'.completed = progress.completed + 1
       /\ progress'.failed = progress.failed
       /\ progress'.skipped = progress.skipped
    \/ /\ progress'.completed = progress.completed
       /\ progress'.failed = progress.failed + 1
       /\ progress'.skipped = progress.skipped
    \/ /\ progress'.completed = progress.completed
       /\ progress'.failed = progress.failed
       /\ progress'.skipped = progress.skipped + 1

\* C28: in a pass, run() logs exactly one outcome event (success, failure
\* or skip) for each key of its date list, when it leaves the key: the
\* events logged are those of the keys gone through, the keys remaining
\* are never negative, and at the end of the pass the events number the
\* keys of the list and none remains.
C28_OneEventPerKey ==
    /\ [](pc \in {"loop", "admit", "fetch", "commit", "except", "done"}
            => /\ progress.total = Len(pending)
               /\ EventsLogged = idx - 1
               /\ progress.total - EventsLogged >= 0)
    /\ [](pc = "done"
            => /\ EventsLogged = Len(pending)
               /\ progress.total - EventsLogged = 0)
    /\ [][(pc \notin {"idle", "done"} /\ pc' # "idle")
            => IF idx' = idx + 1
                 THEN LogsOneEvent
                 ELSE progress' = progress /\ idx' = idx]_vars

\* A pass over both keys has ended that skipped the first and completed
\* the second: two events, none remaining.
C28_Witness ==
    /\ pc = "done"
    /\ pending = AllKeys
    /\ progress.total = 2
    /\ progress.skipped = 1
    /\ progress.completed = 1
    /\ Remaining(progress) = 0

\* C29: when run() skips a key because its attempts have reached
\* max_retries, the record of the key (status, attempts, file_path, error)
\* and the whole state stay as they are, the state file is not written,
\* and there is no wait_if_needed, no download_for_date and no signal to
\* the rate limiter for the key.
C29_SkipChangesNothing ==
    [][\A k \in Keys :
          (AtKey(k) /\ GetAttempts(state, k) >= max_retries /\ pc' # "idle")
            => /\ progress'.skipped = progress.skipped + 1
               /\ k \in DOMAIN state'.downloads
               /\ state'.downloads[k] = state.downloads[k]
               /\ state' = state
               /\ disk' = disk
               /\ write_failures' = write_failures
               /\ request_times' = request_times
               /\ now' = now
               /\ fetches' = fetches
               /\ marks' = marks
               /\ requests_per_minute' = requests_per_minute
               /\ consecutive_429s' = consecutive_429s
               /\ signalled' = "none"]_vars

\* The first key failed in the first pass, with an overload signal, and the
\* second pass has skipped it: its record is the one the first pass left,
\* the file holds it, and it was fetched that one time.
C29_Witness ==
    /\ pc = "loop"
    /\ idx = 2
    /\ passes = 2
    /\ pending = AllKeys
    /\ progress.skipped = 1
    /\ RecordedFailed(state, AllKeys[1], MsgRateLimited)
    /\ GetAttempts(state, AllKeys[1]) = 2
    /\ max_retries = 2
    /\ disk = FileJson(Dump(state))
    /\ fetches[AllKeys[1]] = 1
    /\ marks[AllKeys[1]] = 1
    /\ signalled = "none"

\* The position of a key in the date range.
PositionOf(k) == CHOOSE i \in DOMAIN AllKeys : AllKeys[i] = k

\* The status of key k is `status` in memory and in the state file.
Persisted(st, file, k, status) ==
    /\ GetStatus(st, k) = status
    /\ file.kind = "json"
    /\ GetStatus(LoadState(file), k) = status

\* run() is between the IN_PROGRESS of a key and its final status.
InFlight == pc \in {"admit", "fetch", "commit", "except"}

\* C30: run() goes through the keys of its list one at a time, in the order
\* of the date range; for a key that is not skipped, IN_PROGRESS is in the
\* state file before wait_if_needed is called, wait_if_needed has returned
\* before download_for_date is called, and COMPLETED or FAILED is in the
\* state file before the loop goes on to the next key; a key is set to
\* IN_PROGRESS only when no other key is in flight.
C30_PerKeyStepOrder ==
    /\ [](\A i, j \in DOMAIN pending :
            i < j => PositionOf(pending[i]) < PositionOf(pending[j]))
    /\ [](InFlight => idx \in DOMAIN pending)
    /\ [](pc \in {"admit", "fetch", "commit"}
            => Persisted(state, disk, CurrentKey, IN_PROGRESS))
    /\ [](pc \in {"fetch", "commit"}
            => /\ request_times # <<>>
               /\ request_times[Len(request_times)] = now)
    /\ [][/\ (pc \notin {"idle", "done"} /\ pc' # "idle")
                => pending' = pending /\ idx' \in {idx, idx + 1}
          /\ marks' # marks
                => /\ pc = "loop" /\ pc' = "admit" /\ idx' = idx
                   /\ marks' = [marks EXCEPT ![CurrentKey] = @ + 1]
          /\ (pc = "admit" /\ pc' # "idle")
                => /\ pc' = "fetch"
                   /\ fetches' = fetches
                   /\ Len(request_times') > 0
          /\ fetches' # fetches
                => /\ pc = "fetch"
                   /\ fetches' = [fetches EXCEPT ![CurrentKey] = @ + 1]
          /\ (InFlight /\ pc' # "idle")
                => \/ InFlight' /\ idx' = idx
                   \/ /\ pc' = "loop"
                      /\ idx' = idx + 1
                      /\ \E status \in {COMPLETED, FAILED} :
                            Persisted(state', disk', CurrentKey, status)]_vars

\* The first key has its final status in the state file; the second is
\* IN_PROGRESS there, wait_if_needed has returned for it, and its fetch has
\* not been made yet.
C30_Witness ==
    /\ pc = "fetch"
    /\ passes = 1
    /\ pending = AllKeys
    /\ idx = 2
    /\ Persisted(state, disk, AllKeys[1], FAILED)
    /\ Persisted(state, disk, AllKeys[2], IN_PROGRESS)
    /\ Len(request_times) = 2
    /\ fetches[AllKeys[1]] = 1
    /\ fetches[AllKeys[2]] = 0

\* The step is the end of the process and the start of a new one.
IsRestart == pc # "idle" /\ pc' = "idle"

\* C31: a key that is IN_PROGRESS in the state file when the process ends
\* is IN_PROGRESS for the new process, and a run(resume=True) that comes to
\* a key that is IN_PROGRESS sets it to IN_PROGRESS again and fetches it,
\* whatever max_retries is.
C31_DanglingReattempted ==
    [][/\ IsRestart
            => \A k \in Keys :
                  GetStatus(LoadState(disk), k) = IN_PROGRESS
                    => GetStatus(state', k) = IN_PROGRESS
       /\ \A k \in Keys :
             (/\ AtKey(k)
              /\ resume
              /\ GetStatus(state, k) = IN_PROGRESS
              /\ pc' # "idle")
                => Reattempts(k)]_vars

\* C14: a set_status call of run() whose write of the state file fails
\* ends run() with the error: it is not handled as a failure of the key and
\* no later key is processed.
C14_WriteFailureFatal ==
    [][write_failures' > write_failures => pc' = "raised"]_vars

\* ==================================================================
\* Properties of the store
\* ==================================================================
\* What a caller can observe of a store state: get_status and get_attempts
\* of every key, and get_summary.
Observed(st) ==
    [status |-> [k \in Keys |-> GetStatus(st, k)],
     attempts |-> [k \in Keys |-> GetAttempts(st, k)],
     summary |-> GetSummary(st)]

\* C10: after calls that all returned normally, a store constructed from the
\* state file observes what the store that wrote the file observes.
C10_StoreRoundTrip ==
    ~store_raised => Observed(LoadState(disk)) = Observed(state)

\* The file holds records with attempts, paths and errors, and metadata whose
\* reloaded value differs from the one in memory.
C10_Witness ==
    /\ ~store_raised
    /\ disk.kind = "json"
    /\ \E k \in DOMAIN state.downloads :
          /\ state.downloads[k].attempts > 0
          /\ state.downloads[k].file_path # PyNone
          /\ state.downloads[k].error # PyNone
    /\ LoadState(disk).metadata # state.metadata

\* The number of elements of S, counted one element at a time (the sum of
\* 1 over a scan).
RECURSIVE CountOf(_)
CountOf(S) ==
    IF S = {} THEN 0 ELSE LET x == CHOOSE y \in S : TRUE IN 1 + CountOf(S \ {x})

\* The keys that have a record with the given status.
RecordsWith(st, status) ==
    {k \in DOMAIN st.downloads : GetStatus(st, k) = status}

\* C21: get_summary agrees with the records: total is their number,
\* completed, failed and in_progress are the numbers of records with that
\* status, pending is the number of the other records (so it is total minus
\* the three and never negative), and success_rate is completed / total *
\* 100, and 0 without records.
C21_SummaryConsistent ==
    LET s == GetSummary(state)
    IN  /\ s.total = CountOf(DOMAIN state.downloads)
        /\ s.completed = CountOf(RecordsWith(state, COMPLETED))
        /\ s.failed = CountOf(RecordsWith(state, FAILED))
        /\ s.in_progress = CountOf(RecordsWith(state, IN_PROGRESS))
        /\ s.pending = CountOf(RecordsWith(state, PENDING)
                               \cup RecordsWith(state, SKIPPED))
        /\ s.pending = s.total - s.completed - s.failed - s.in_progress
        /\ s.pending >= 0
        /\ IF s.total = 0
             THEN s.success_rate[1] = 0
             ELSE s.success_rate[1] * s.total
                    = s.completed * 100 * s.success_rate[2]

\* Two records, one completed and one that is neither completed, failed nor
\* in progress: total 2, completed 1, pending 1, success rate 50.
C21_Witness ==
    LET s == GetSummary(state)
    IN  /\ s.total = 2
        /\ s.completed = 1
        /\ s.pending = 1
        /\ s.success_rate[1] = 50 * s.success_rate[2]

\* A store state without records and metadata, as a caller sees it: every
\* key is PENDING with 0 attempts and the summary counts nothing.
ReadsEmpty(st) ==
    /\ \A k \in Keys \cup {UnknownKey} :
          GetStatus(st, k) = PENDING /\ GetAttempts(st, k) = 0
    /\ GetSummary(st).total = 0
    /\ DOMAIN st.downloads = {}
    /\ DOMAIN st.metadata = {}

\* C22: when reset() has returned, the store reads empty, and so does a
\* store constructed from the state file.
C22_ResetEmpties ==
    [][(~store_raised /\ Reset("ok"))
        => (ReadsEmpty(state') /\ ReadsEmpty(LoadState(disk')))]_vars

\* reset() has returned: the state file holds the empty snapshot, which no
\* other call writes.
C22_Witness ==
    /\ ~store_raised
    /\ disk = FileJson(Dump(InitState))
    /\ ReadsEmpty(state)

\* C23: a key without a record reads as PENDING with 0 attempts, and the
\* reading calls (get_status, get_attempts, get_pending_dates,
\* get_summary) create no record, change nothing of the state and write
\* nothing to the state file.
C23_UnknownKeysReadPending ==
    /\ [](\A k \in Keys \cup {UnknownKey} :
            k \notin DOMAIN state.downloads
              => /\ GetStatus(state, k) = PENDING
                 /\ GetAttempts(state, k) = 0
                 /\ GetPendingDates(state, <<k>>) = <<k>>)
    /\ [][(StoreRead \/ summary' # summary)
            => /\ state' = state
               /\ DOMAIN state'.downloads = DOMAIN state.downloads
               /\ disk' = disk
               /\ store_raised' = store_raised]_vars

\* After a set_status on one key, a caller has read the store: the summary
\* it holds counts one record, the other key still has none and reads as
\* PENDING, and the file is as set_status wrote it.
C23_Witness ==
    /\ ~store_raised
    /\ summary = GetSummary(state)
    /\ summary.total = 1
    /\ disk = FileJson(Dump(state))
    /\ \E k \in Keys :
          /\ k \notin DOMAIN state.downloads
          /\ GetStatus(state, k) = PENDING
          /\ GetAttempts(state, k) = 0

\* The positions of all_dates whose date is not completed.
KeptPositions(st, all_dates) ==
    {i \in DOMAIN all_dates : GetStatus(st, all_dates[i]) # COMPLETED}

\* C20: get_pending_dates(all_dates) is the list of the dates of all_dates
\* whose status is not COMPLETED, each at its rank among them.
C20_PendingDates ==
    \A all_dates \in DateLists :
        LET result == GetPendingDates(state, all_dates)
            kept == KeptPositions(state, all_dates)
        IN  /\ Len(result) = Cardinality(kept)
            /\ \A i \in kept :
                  result[Cardinality({j \in kept : j <= i})] = all_dates[i]

\* With the first date completed and the second failed, the pending dates
\* of both are the second alone; a date without a record is kept.
C20_Witness ==
    /\ GetStatus(state, AllKeys[1]) = COMPLETED
    /\ GetStatus(state, AllKeys[2]) = FAILED
    /\ GetPendingDates(state, AllKeys) = <<AllKeys[2]>>
    /\ GetPendingDates(state, <<UnknownKey, AllKeys[2], AllKeys[1]>>)
          = <<UnknownKey, AllKeys[2]>>

\* The record of date_key is new or has changed in the step.
RecordChanged(date_key) ==
    /\ date_key \in DOMAIN state'.downloads
    /\ date_key \in DOMAIN state.downloads
          => state'.downloads[date_key] # state.downloads[date_key]

\* The step is a call set_status(date_key, status, ..).
IsSetStatus(date_key, status) ==
    \E fpath \in FilePathArgs, error \in ErrorArgs, out \in SaveOutcomes :
        SetStatus(date_key, status, fpath, error, out)

\* C19: set_status(key, status) adds exactly 1 to the attempts of the key
\* when status is IN_PROGRESS or FAILED and leaves them as they are for any
\* other status, an unknown key counting from 0; the attempts of the other
\* keys do not change.  (A call that changes no record changes no attempts.)
C19_AttemptCounting ==
    [][\A date_key \in Keys, status \in DownloadStatus :
          (RecordChanged(date_key) /\ GetStatus(state', date_key) = status)
            => \/ /\ GetAttempts(state', date_key) =
                        (IF date_key \in DOMAIN state.downloads
                           THEN state.downloads[date_key].attempts ELSE 0)
                        + (IF status \in {IN_PROGRESS, FAILED} THEN 1 ELSE 0)
                   /\ \A k \in Keys \ {date_key} :
                         GetAttempts(state', k) = GetAttempts(state, k)
               \/ ~IsSetStatus(date_key, status)]_vars

\* A key was set IN_PROGRESS, then FAILED: its attempts are 2; another was
\* set to a status that does not count and has attempts 0.
C19_Witness ==
    \E k1, k2 \in DOMAIN state.downloads :
        /\ state.downloads[k1].status = FAILED
        /\ state.downloads[k1].attempts = 2
        /\ state.downloads[k2].status \in {COMPLETED, PENDING, SKIPPED}
        /\ state.downloads[k2].attempts = 0

\* C12: whatever the state file holds, a store constructed from it has a
\* state the operations work on, and unless the file holds a snapshot that
\* state is the empty snapshot.
C12_LoadNeverFails ==
    /\ HasDownloads(LoadState(disk))
    /\ ~WellFormed(disk) => LoadState(disk) = InitState

\* C11: when the process dies inside the persist of a set_status call, the
\* state file afterwards loads as the snapshot before the call or as the
\* snapshot after it (so a key completed before a call on another key still
\* loads as completed).
C11_AtomicPersist ==
    [][StoreCrashInSetStatus =>
        \/ Observed(LoadState(disk')) = Observed(state)
        \/ \E date_key \in Keys, status \in DownloadStatus,
              fpath \in FilePathArgs, error \in ErrorArgs :
                Observed(LoadState(disk')) =
                  Observed(SetStatusState(state, date_key, status,
                                          fpath, error))]_vars

\* ==================================================================
\* Properties of the rate limiter
\* ==================================================================
BfGreaterThanOne == backoff_factor[1] > backoff_factor[2]
BfAtLeastOne == backoff_factor[1] >= backoff_factor[2]

\* Returns of wait_if_needed() in the 60 seconds that end at T (T included,
\* T - 60 excluded), among those after the first `from` returns.
AdmitsInWindow(T, from) ==
    Cardinality({i \in DOMAIN admitLog :
                    /\ i > from
                    /\ admitLog[i] > T - Window
                    /\ admitLog[i] <= T})

\* C4: while no overload has been signalled, every window of 60 consecutive
\* seconds holds at most initial_rpm returns of wait_if_needed().
C4_RateBoundNoOverload ==
    overloads = 0 => \A T \in 0..now : AdmitsInWindow(T, 0) <= initial_rpm

\* More calls than the ceiling were made and the later ones were admitted.
C4_Witness ==
    /\ overloads = 0
    /\ Len(admitLog) > initial_rpm
    /\ admitLog[initial_rpm + 1] >= admitLog[1] + Window

\* C5: once overload signals have lowered the ceiling to c < initial_rpm, the
\* returns of wait_if_needed() made at that ceiling number at most c in any
\* trailing 60-second span.
C5_RateBoundAtCeiling ==
    (overloads > 0 /\ requests_per_minute < initial_rpm)
        => \A T \in 0..now : AdmitsInWindow(T, epochStart) <= requests_per_minute

\* q is max(1, floor(c / backoff_factor)), by the defining inequalities of
\* the floor.
IsBackoffOf(q, c) ==
    LET num == backoff_factor[1]
        den == backoff_factor[2]
    IN  IF c * den < num
          THEN q = 1
          ELSE q * num <= c * den /\ c * den < (q + 1) * num

\* The step is a wait_if_needed() call that is among the first
\* requests_per_minute calls after an on_429_response(), no success having
\* been reported in between.
AdmitAfterOverload ==
    /\ Len(admitLog') = Len(admitLog) + 1
    /\ last_signal = "overload"
    /\ Len(admitLog) - overloadAt < requests_per_minute

\* C24: on_429_response(retry_after) sets the ceiling to max(1, floor(ceiling
\* / backoff_factor)), returns retry_after seconds later and leaves the
\* window history empty; the next `ceiling` wait_if_needed() calls return
\* without sleeping.
C24_OverloadEffect ==
    [][/\ overloads' = overloads + 1
            => /\ IsBackoffOf(requests_per_minute', requests_per_minute)
               /\ \E retry_after \in RetryAfters : now' = now + retry_after
               /\ request_times' = <<>>
       /\ AdmitAfterOverload
            => /\ now' = now
               /\ admitLog'[Len(admitLog')] = now]_vars

\* The window was full when the overload was signalled; the signal lowered
\* the ceiling, and the calls made since, as many as the new ceiling, have
\* all returned at once, inside the 60 seconds of the earlier calls.
C24_Witness ==
    /\ last_signal = "overload"
    /\ requests_per_minute < prev_rpm
    /\ overloadAt >= initial_rpm
    /\ Len(admitLog) - overloadAt = requests_per_minute
    /\ admitLog[Len(admitLog)] = now
    /\ now < admitLog[1] + Window

\* q is min(initial_rpm, floor(c * 1.1)), by the defining inequalities of the
\* floor.
IsRecoveryOf(q, c) ==
    \E f \in 0..(2 * c) :
        /\ 10 * f <= 11 * c
        /\ 11 * c < 10 * (f + 1)
        /\ q = IF f < initial_rpm THEN f ELSE initial_rpm

\* C25: every on_success_response() call made at a ceiling below
\* initial_rpm sets the ceiling to min(initial_rpm, floor(ceiling * 1.1)),
\* the first one after an overload or a later one; at a ceiling equal to
\* initial_rpm the call changes nothing.
C25_SuccessEffect ==
    [][success_toggle' # success_toggle
        => /\ requests_per_minute < initial_rpm
                => IsRecoveryOf(requests_per_minute', requests_per_minute)
           /\ requests_per_minute = initial_rpm
                => requests_per_minute' = requests_per_minute]_vars

\* C6: with backoff_factor > 1 every on_429_response leaves the ceiling
\* strictly smaller than before, except at 1, where it stays 1.
C6_BackoffMonotone ==
    [][(overloads' = overloads + 1 /\ BfGreaterThanOne)
        => IF requests_per_minute = 1
             THEN requests_per_minute' = 1
             ELSE requests_per_minute' < requests_per_minute]_vars

\* An overload signal has just lowered a ceiling above 1.
C6_Witness ==
    /\ last_signal = "overload"
    /\ BfGreaterThanOne
    /\ prev_rpm > 1
    /\ requests_per_minute < prev_rpm

\* C7: a success signal that follows overload signals, at a ceiling below
\* initial_rpm, strictly increases the ceiling and keeps it <= initial_rpm.
C7_RecoveryMonotone ==
    [][(OnSuccessResponse /\ consecutive_429s > 0
                          /\ requests_per_minute < initial_rpm)
        => (requests_per_minute' > requests_per_minute
            /\ requests_per_minute' <= initial_rpm)]_vars

\* C8: once the remote signals no overload any more and successes keep being
\* reported, the ceiling eventually is initial_rpm again.
C8_GradualRecovery ==
    (recovering /\ BfAtLeastOne) ~> (requests_per_minute = initial_rpm)

\* C9: with backoff_factor >= 1 the ceiling stays within 1..initial_rpm, and
\* initial_rpm never changes.
C9_CeilingBounds ==
    /\ [](BfAtLeastOne => (1 <= requests_per_minute
                           /\ requests_per_minute <= initial_rpm))
    /\ [][initial_rpm' = initial_rpm]_vars

\* A success signal has just brought the ceiling back to initial_rpm, where
\* ten percent more would have passed it.
C9_Witness ==
    /\ BfAtLeastOne
    /\ last_signal = "success"
    /\ prev_rpm < initial_rpm
    /\ (prev_rpm * 11) \div 10 > initial_rpm
    /\ requests_per_minute = initial_rpm

\* ==================================================================
\* Properties of the store and the limiter shared by threads
\* ==================================================================
\* Thread t applies the mutation of a call in this step.
MutatesIn(t) ==
    \/ tpc[t] \in {"locked", "orphaned"} /\ tpc'[t] = "mutated"
    \/ tpc[t] = "idle" /\ tpc'[t] = "mutated"

\* Thread t has applied the mutation of its call and not yet written it.
Unpersisted(t) == tpc[t] = "mutated"

\* Thread t is writing the state file.
Writing(t) == tpc[t] = "saving"

\* C32: a call that has mutated the state holds the store lock until it has
\* persisted; no other call mutates between a call's mutation and its
\* persist; the file writes of two calls never overlap.
C32_OneCriticalSection ==
    [][/\ \A t \in Threads : Unpersisted(t)' => store_lock' = t
       /\ \A t, u \in Threads :
             (t # u /\ Unpersisted(t)) => ~MutatesIn(u)
       /\ \A t, u \in Threads :
             (Writing(t)' /\ Writing(u)') => t = u]_vars

\* The part of C32 the code keeps: the file writes never overlap.
WritesNeverOverlap ==
    \A t, u \in Threads : (Writing(t) /\ Writing(u)) => t = u

\* Thread t is inside wait_if_needed or on_429_response.
InLimiter(t) == tpc[t] \in {"admitting", "sleeping", "cooling"}

\* Thread t serves the cooldown of on_429_response.
Cooling(t) == tpc[t] = "cooling"

\* A call of wait_if_needed returns in this step.
AdmitReturns == Len(admitLog') > Len(admitLog)

\* A call of on_success_response is made in this step.
SuccessRuns == success_toggle' # success_toggle

\* C33: wait_if_needed, on_429_response and on_success_response never run
\* at the same time on one limiter, and no wait_if_needed returns while an
\* on_429_response serves its cooldown.
C33_LimiterCallsExclusive ==
    [][/\ \A t, u \in Threads : (InLimiter(t)' /\ InLimiter(u)') => t = u
       /\ SuccessRuns => \A t \in Threads : ~InLimiter(t)
       /\ AdmitReturns => \A t \in Threads : ~Cooling(t)]_vars

\* A cooldown has been served, and the wait_if_needed that returned after
\* it is the only request the cleared window holds.
C33_Witness ==
    /\ overloads > 0
    /\ \A t \in Threads : tpc[t] = "idle"
    /\ Len(admitLog) > overloadAt
    /\ request_times = <<admitLog[Len(admitLog)]>>

\* ==================================================================
\* Properties of the records kept
\* ==================================================================
\* The step is a call of reset().
IsReset == \E out \in SaveOutcomes : Reset(out)

\* C34: in a step that is not a call of reset(), no recorded key goes away
\* and the attempts of no key decrease.
C34_RecordsNeverLost ==
    [][IsReset \/
       /\ DOMAIN state.downloads \subseteq DOMAIN state'.downloads
       /\ \A k \in Keys : GetAttempts(state', k) >= GetAttempts(state, k)]_vars

\* The error of a record is the one run() writes when validate_file raised.
IsValidationError(error) ==
    /\ error # PyNone
    /\ Len(error[2]) >= 2
    /\ SubSeq(error[2], 1, 2) = <<"Validation", "failed:">>

\* C35: a record with a file_path is COMPLETED, or FAILED with the error of
\* a validation failure.
C35_PathOnlyWithArtifact ==
    \A k \in DOMAIN state.downloads :
        state.downloads[k].file_path # PyNone
          => \/ state.downloads[k].status = COMPLETED
             \/ /\ state.downloads[k].status = FAILED
                /\ IsValidationError(state.downloads[k].error)

\* ==================================================================
\* Termination of a pass
\* ==================================================================
\* run() is inside a pass.
InPass == pc \in {"loop", "admit", "fetch", "commit", "except"}

\* The longest a call of wait_if_needed sleeps, and the longest the sleep
\* overshoots.
MaxAdmitWait == Window
MaxOvershoot == TickSize

\* C36: a pass that the process is not killed in reaches its end; at the end
\* every key of the list has been reported and the summary is the one of
\* the store; run() does not raise; wait_if_needed blocks for at most the
\* window and on_429_response for retry_delay.
C36_PassTerminates ==
    /\ InPass ~> (pc \in {"done", "idle"})
    /\ [](pc # "raised")
    /\ [](pc = "done" => /\ summary = GetSummary(state)
                         /\ idx = Len(pending) + 1
                         /\ EventsLogged = Len(pending))
    /\ [][/\ pc = "admit" /\ pc' = "fetch"
             => now' - now <= MaxAdmitWait + MaxOvershoot
          /\ (pc = "except" /\ pc' = "loop")
             => now' - now \in {0, RetryDelay}]_vars

\* A pass has ended after a wait_if_needed that slept and after a cooldown.
C36_Witness ==
    /\ pc = "done"
    /\ Len(pending) = Len(AllKeys)
    /\ now > RetryDelay
    /\ progress.failed > 0

\* ==================================================================
\* Properties of the HTTP client
\* ==================================================================
\* The answers the retry policy names: a 429, a timeout, a connection error
\* or a 5xx response.
RetryableAnswers == {"429", "timeout", "connection", "500"}

\* The call sent max_retries requests and every answer was a 429.
Only429s ==
    /\ http_pc = "done"
    /\ sent = http_max_retries
    /\ sent > 0
    /\ retried_after \subseteq {"429"}
    /\ last_exception = "None"
    /\ http_result.kind = "raised"

\* The call sends at most max_retries requests.
SendsAtMostMaxRetries == sent <= http_max_retries

\* The call retries after the answers of the policy only.
RetriesOnlyRetryable == retried_after \subseteq RetryableAnswers

\* The call ends by returning a response or by raising HttpClientError.
EndsAsDeclared ==
    http_pc = "done"
      => \/ http_result.kind = "returned"
         \/ /\ http_result.kind = "raised"
            /\ http_result.class = "HttpClientError"

\* The error raised after max_retries 429 responses is one run() takes for
\* an overload.
ExhaustionNames429 ==
    (Only429s /\ http_result.class = "HttpClientError")
      => IsRateLimitMessage(http_result.message)

\* C37: one _request_with_retry call sends at most max_retries requests,
\* retries only after a 429, a timeout, a connection error or a 5xx, ends
\* by returning a response or raising HttpClientError, and names the 429
\* in the error it raises after max_retries 429 responses.
C37_HttpRetryPolicy ==
    /\ SendsAtMostMaxRetries
    /\ RetriesOnlyRetryable
    /\ EndsAsDeclared
    /\ ExhaustionNames429

\* ==================================================================
\* Properties of the admissions and backoffs of one key
\* ==================================================================
\* The step ends the handling of a key that was not skipped.
LeavesKey == pc \in {"commit", "except"} /\ pc' = "loop"

\* The fetch of the key ended in an error by which the remote signalled
\* overload.
OverloadError ==
    /\ pc = "except"
    /\ exc \in {MsgRateLimited, MsgRateLimitedAfter(max_retries),
                MsgInvalidLiteral}

\* C38: when run() leaves a key it has not skipped, wait_if_needed has been
\* called once for the key, and on_429_response once when the remote
\* signalled overload and not at all otherwise.
C38_OneAdmitOneBackoff ==
    [][LeavesKey
         => /\ slots' = 1
            /\ backoffs' = IF OverloadError THEN 1 ELSE 0]_vars

\* ==================================================================
\* The fixpoint of resumed passes
\* ==================================================================
\* Every key is COMPLETED or has used up its attempts.
AtFixpoint ==
    \A k \in Keys :
        \/ GetStatus(state, k) = COMPLETED
        \/ GetAttempts(state, k) >= max_retries

\* run() is between two passes or between two keys of a pass.
BetweenKeys == pc \in {"idle", "done", "loop"}

\* C39: resumed passes reach a state in which every key is COMPLETED or has
\* attempts >= max_retries, and from then on no step of a pass calls
\* download_for_date or changes the records or the state file.
C39_PassesReachFixpoint ==
    /\ <>[]AtFixpoint
    /\ [][(AtFixpoint /\ BetweenKeys)
            => /\ fetches' = fetches
               /\ state' = state
               /\ disk' = disk
               /\ AtFixpoint'
               /\ BetweenKeys']_vars

\* A pass has run at the fixpoint and skipped a key that is not COMPLETED.
C39_Witness ==
    /\ pc = "done"
    /\ passes > 1
    /\ AtFixpoint
    /\ progress.skipped > 0
    /\ finishes[Len(finishes) - 1].completed = GetCompletedDates(state)
    /\ \E k \in Keys : GetStatus(state, k) # COMPLETED

\* ==================================================================
\* Properties of set_status calls made by two threads
\* ==================================================================
\* The two threads have each made one set_status call, for different keys,
\* and both calls have returned.
BothReturned ==
    /\ calls = 2
    /\ \A t \in Threads :
          /\ tpc[t] = "idle"
          /\ Cardinality(returned[t]) = 1
          /\ \A c \in returned[t] : c.op = "set_status"
    /\ \A c \in returned[1], d \in returned[2] : c.date_key # d.date_key

\* The record a first set_status(date_key, status) call leaves.
FirstRecord(status) ==
    [status |-> status, file_path |-> PyNone, error |-> PyNone,
     attempts |-> IF CountsAsAttempt(status) THEN 1 ELSE 0]

\* C40: after set_status calls of two threads for two different keys have
\* both returned, the record of each key, with the status and the attempts
\* of its call, is in memory and in the state file.
C40_NoLostUpdate ==
    BothReturned
      => \A t \in Threads : \A c \in returned[t] :
            /\ c.date_key \in DOMAIN state.downloads
            /\ state.downloads[c.date_key] = FirstRecord(c.status)
            /\ disk.kind = "json"
            /\ c.date_key \in DOMAIN LoadState(disk).downloads
            /\ LoadState(disk).downloads[c.date_key] = FirstRecord(c.status)

\* Both calls have returned, one for each key.
C40_Witness ==
    /\ BothReturned
    /\ DOMAIN state.downloads = Keys
    /\ \E c \in returned[1] : c.status = IN_PROGRESS
    /\ \E d \in returned[2] : d.status = COMPLETED

====
